---- MODULE Spec2Model ----
(***************************************************************************)
(* Model of csv2html.py: the key normaliser, the metric classifier and     *)
(* accuracy extractor, the schema reconciler and the metadata merger.      *)
(*                                                                         *)
(* Text is a sequence of one-character strings, so that trimming, case     *)
(* folding, substring tests and the regular expressions of the source are  *)
(* computed character by character.                                        *)
(***************************************************************************)
EXTENDS Integers, Sequences, FiniteSets, TLC

(***************************************************************************)
(* Characters and the str methods the source uses.                         *)
(***************************************************************************)
LowerLetters == <<"a","b","c","d","e","f","g","h","i","j","k","l","m",
                  "n","o","p","q","r","s","t","u","v","w","x","y","z">>

UpperLetters == <<"A","B","C","D","E","F","G","H","I","J","K","L","M",
                  "N","O","P","Q","R","S","T","U","V","W","X","Y","Z">>

DigitChars == {"0","1","2","3","4","5","6","7","8","9"}

SpaceChars == {" ", "\t"}

Range(f) == {f[i] : i \in DOMAIN f}

UpperSet == Range(UpperLetters)

LowerSet == Range(LowerLetters)

\* the characters \w of the re module matches
WordChars == UpperSet \cup LowerSet \cup DigitChars \cup {"_"}

\* c.lower() and c.upper() of the letters
LowerOf ==
    [c \in UpperSet |->
        LowerLetters[CHOOSE i \in DOMAIN UpperLetters : UpperLetters[i] = c]]

UpperOf ==
    [c \in LowerSet |->
        UpperLetters[CHOOSE i \in DOMAIN LowerLetters : LowerLetters[i] = c]]

IsDigit(c) == c \in DigitChars

IsSpace(c) == c \in SpaceChars

IsUpper(c) == c \in UpperSet

IsLower(c) == c \in LowerSet

IsWord(c) == c \in WordChars

LowerChar(c) == IF IsUpper(c) THEN LowerOf[c] ELSE c

UpperChar(c) == IF IsLower(c) THEN UpperOf[c] ELSE c

\* str.lower()
StrLower(s) == [i \in DOMAIN s |-> LowerChar(s[i])]

\* s[i:] and s[:i] with 1-based positions
From(s, i) == SubSeq(s, i, Len(s))

\* str.startswith(p)
StartsWith(s, p) == Len(p) <= Len(s) /\ SubSeq(s, 1, Len(p)) = p

\* does p occur in s at position i
OccursAt(s, p, i) == i + Len(p) - 1 <= Len(s) /\ SubSeq(s, i, i + Len(p) - 1) = p

\* p in s
Contains(s, p) == \E i \in 1..(Len(s) + 1) : OccursAt(s, p, i)

\* str.strip()
RECURSIVE LStrip(_)
LStrip(s) == IF s # <<>> /\ IsSpace(Head(s)) THEN LStrip(Tail(s)) ELSE s

RECURSIVE RStrip(_)
RStrip(s) ==
    IF s # <<>> /\ IsSpace(s[Len(s)]) THEN RStrip(SubSeq(s, 1, Len(s) - 1)) ELSE s

Strip(s) == RStrip(LStrip(s))

\* str.split(): the maximal runs of non-whitespace, in order
RECURSIVE TakeWord(_)
TakeWord(s) ==
    IF s = <<>> \/ IsSpace(Head(s)) THEN <<>> ELSE <<Head(s)>> \o TakeWord(Tail(s))

RECURSIVE Split(_)
Split(s) ==
    LET t == LStrip(s)
        w == TakeWord(t)
    IN  IF t = <<>> THEN <<>> ELSE <<w>> \o Split(From(t, Len(w) + 1))

\* sep.join(parts)
RECURSIVE Join(_, _)
Join(sep, parts) ==
    IF parts = <<>> THEN <<>>
    ELSE IF Len(parts) = 1 THEN parts[1]
    ELSE parts[1] \o sep \o Join(sep, Tail(parts))

(***************************************************************************)
(* Values: a Python object held in a cell or passed to a helper is a text  *)
(* (str), a float (num, in hundredths) or the missing value NaN.           *)
(***************************************************************************)
Str(s) == [kind |-> "str", s |-> s, n |-> 0]

NaN == [kind |-> "nan", s |-> <<>>, n |-> 0]

IsStr(v) == v.kind = "str"

(***************************************************************************)
(* _normalize_key                                                          *)
(***************************************************************************)
NormalizeKeyNoLower(v) ==
    IF ~IsStr(v) THEN <<>> ELSE Join(<<" ">>, Split(Strip(v.s)))

NormalizeKeyNoCollapse(v) ==
    IF ~IsStr(v) THEN <<>> ELSE StrLower(Strip(v.s))

normalize_key(v) ==
    IF ~IsStr(v) THEN <<>>
    ELSE StrLower(Join(<<" ">>, Split(Strip(v.s))))

(***************************************************************************)
(* Literal texts of the source.                                            *)
(***************************************************************************)
TxtTop1 == <<"T","o","p","1">>

TxtMAP == <<"m","A","P">>

TxtMIoU == <<"m","I","o","U">>

TxtAvgPSNR == <<"A","v","g"," ","P","S","N","R">>

TxtPSNR == <<"P","S","N","R">>

TxtSSIM == <<"S","S","I","M">>

TxtValAP == <<"V","a","l"," ","A","P">>

TxtAPParen == <<"A","P","(">>

TxtAPSpace == <<"A","P"," ">>

TxtAP == <<"A","P">>

TxtAPEasy == <<"A","P","(","E","a","s","y",")">>

TxtAPMedium == <<"A","P","(","M","e","d","i","u","m",")">>

TxtAPHard == <<"A","P","(","H","a","r","d",")">>

TxtMAPAt05 == <<"m","A","P","@","0",".","5">>

TxtMAP50 == <<"m","A","P","5","0">>

Txt50 == <<"5","0">>

Txt05 == <<"0",".","5">>

TxtAPTriple == <<"A","P","(","E","a","s","y","/","M","e","d","/","H","a","r","d",")">>

TxtPSNRSSIM == <<"P","S","N","R","/","S","S","I","M">>

TxtEasy == <<"E","a","s","y">>

TxtMedium == <<"M","e","d","i","u","m">>

TxtHard == <<"H","a","r","d">>

TxtVal == <<"V","a","l">>

TxtAvg == <<"A","v","g">>

TxtTop == <<"T","o","p">>

TxtSlash == <<" ","/"," ">>

TxtNan == <<"n","a","n">>

(***************************************************************************)
(* The pieces of the regular expressions of lines 185-196.  A position is  *)
(* 1-based; Len(s) + 1 is the end of the text.  A match result of 0 means  *)
(* no match.                                                               *)
(***************************************************************************)
CharAt(s, i) == IF i \in DOMAIN s THEN s[i] ELSE ""

WordAt(s, i) == i \in DOMAIN s /\ IsWord(s[i])

\* \b between positions i - 1 and i
WordBoundary(s, i) == WordAt(s, i - 1) # WordAt(s, i)

\* a literal under re.IGNORECASE
OccursAtCI(s, p, i) ==
    i >= 1 /\ i + Len(p) - 1 <= Len(s)
           /\ StrLower(SubSeq(s, i, i + Len(p) - 1)) = StrLower(p)

Min(S) == CHOOSE x \in S : \A y \in S : x <= y

Max(S) == CHOOSE x \in S : \A y \in S : x >= y

\* \d+ from a digit at i: the last position of the run
RECURSIVE DigitRunEnd(_, _)
DigitRunEnd(s, i) ==
    IF i + 1 <= Len(s) /\ IsDigit(s[i + 1]) THEN DigitRunEnd(s, i + 1) ELSE i

\* [-+]?\d+(?:\.\d+)? at i: the last position of the match, or 0
NumEnd(s, i) ==
    LET d == IF CharAt(s, i) \in {"-", "+"} THEN i + 1 ELSE i
    IN  IF ~IsDigit(CharAt(s, d)) THEN 0
        ELSE LET e == DigitRunEnd(s, d)
             IN  IF CharAt(s, e + 1) = "." /\ IsDigit(CharAt(s, e + 2))
                 THEN DigitRunEnd(s, e + 2)
                 ELSE e

\* the text of the number matched at i
NumText(s, i) == SubSeq(s, i, NumEnd(s, i))

\* \s* from i, greedy: the first position that holds no whitespace
RECURSIVE SkipSpaces(_, _)
SkipSpaces(s, i) ==
    IF i <= Len(s) /\ IsSpace(s[i]) THEN SkipSpaces(s, i + 1) ELSE i

\* \s*[:=]?\s* from i: the only position where a number can then start
SepNumStart(s, i) ==
    LET j == SkipSpaces(s, i)
    IN  IF CharAt(s, j) \in {":", "="} THEN SkipSpaces(s, j + 1) ELSE j

\* [^0-9\-+]* from i: the only position where a number can then start
RECURSIVE SkipNonNum(_, _)
SkipNonNum(s, i) ==
    IF i <= Len(s) /\ ~(IsDigit(s[i]) \/ s[i] \in {"-", "+"})
    THEN SkipNonNum(s, i + 1)
    ELSE i

\* the positions a backtracking \s* can stop at, from any position of P
AfterSpaces(s, P) == UNION {p..SkipSpaces(s, p) : p \in P}

\* the positions after an optional character c, from any position of P
AfterOpt(s, P, c) == P \cup {p + 1 : p \in {x \in P : CharAt(s, x) = c}}

\* _FIRST_NUM / _NUM_RE at i
FirstNumAt(s, i) == NumEnd(s, i) # 0

\* _NUM_RE.findall(s): scanning left to right, matches do not overlap
RECURSIVE NumFindAllFrom(_, _)
NumFindAllFrom(s, i) ==
    IF i > Len(s) THEN <<>>
    ELSE IF NumEnd(s, i) # 0
         THEN <<NumText(s, i)>> \o NumFindAllFrom(s, NumEnd(s, i) + 1)
         ELSE NumFindAllFrom(s, i + 1)

NumFindAll(s) == NumFindAllFrom(s, 1)

\* _TOP1_RE at i: the position of the captured number, or 0
Top1At(s, i) ==
    LET p == i + 3
        q == IF CharAt(s, p) = "-" /\ CharAt(s, p + 1) = "1" THEN p + 1 ELSE p
        j == SkipNonNum(s, q + 1)
    IN  IF /\ WordBoundary(s, i)
           /\ OccursAtCI(s, TxtTop, i)
           /\ CharAt(s, q) = "1"
           /\ WordBoundary(s, q + 1)
           /\ NumEnd(s, j) # 0
        THEN j ELSE 0

\* the lookahead \s*@?\s*0?\.?5|50 of _MAP_MAIN at p
MapLookahead(s, p) ==
    \/ \E x \in AfterOpt(s, AfterOpt(s, AfterSpaces(s,
                AfterOpt(s, AfterSpaces(s, {p}), "@")), "0"), ".") :
           CharAt(s, x) = "5"
    \/ OccursAt(s, Txt50, p)

\* _MAP_MAIN at i: the position of the captured number, or 0
MapMainAt(s, i) ==
    LET j == SepNumStart(s, i + 3)
    IN  IF /\ WordBoundary(s, i)
           /\ OccursAtCI(s, TxtMAP, i)
           /\ WordBoundary(s, i + 3)
           /\ ~MapLookahead(s, i + 3)
           /\ NumEnd(s, j) # 0
        THEN j ELSE 0

\* the positions after the group (?:@?\s*0?\.?5|50) of _MAP_050 from p
Map050GroupEnds(s, p) ==
    {x + 1 : x \in {y \in AfterOpt(s, AfterOpt(s, AfterSpaces(s,
                      AfterOpt(s, {p}, "@")), "0"), ".") : CharAt(s, y) = "5"}}
        \cup (IF OccursAt(s, Txt50, p) THEN {p + 2} ELSE {})

\* _MAP_050 at i: the position of the captured number, or 0
Map050At(s, i) ==
    LET ends == {e \in Map050GroupEnds(s, i + 3) :
                    WordBoundary(s, e) /\ NumEnd(s, SepNumStart(s, e)) # 0}
    IN  IF /\ WordBoundary(s, i)
           /\ OccursAtCI(s, TxtMAP, i)
           /\ ends # {}
        THEN SepNumStart(s, Min(ends)) ELSE 0

\* _AP_PREAMBLE_RE.search(s)
ApPreambleFound(s) ==
    \E i \in DOMAIN s :
        /\ WordBoundary(s, i)
        /\ \/ OccursAtCI(s, TxtAP, i) /\ WordBoundary(s, i + 2)
           \/ /\ OccursAtCI(s, TxtVal, i)
              /\ OccursAtCI(s, TxtAP, SkipSpaces(s, i + 3))
              /\ WordBoundary(s, SkipSpaces(s, i + 3) + 2)

\* _AP_PAIR_RE with the label lbl at i: the position of the number, or 0
ApPairAt(s, lbl, i) ==
    LET j == SepNumStart(s, i + Len(lbl))
    IN  IF /\ WordBoundary(s, i)
           /\ OccursAtCI(s, lbl, i)
           /\ WordBoundary(s, i + Len(lbl))
           /\ NumEnd(s, j) # 0
        THEN j ELSE 0

\* _AP_FUNC_RE with the label lbl at i: the position of the number, or 0
ApFuncAt(s, lbl, i) ==
    LET f == TxtAPParen \o lbl \o <<")">>
        j == SepNumStart(s, i + Len(f))
    IN  IF OccursAtCI(s, f, i) /\ NumEnd(s, j) # 0 THEN j ELSE 0

\* _PSNR_RE / _SSIM_RE with the label lbl, match starting at q: the position
\* of the captured number, or 0
AvgLabelAt(s, lbl, q) ==
    LET p == IF OccursAtCI(s, TxtAvg, q) THEN SkipSpaces(s, q + 3) ELSE q
        j == SkipNonNum(s, p + Len(lbl))
    IN  IF /\ WordBoundary(s, q)
           /\ OccursAtCI(s, lbl, p)
           /\ WordBoundary(s, p + Len(lbl))
           /\ NumEnd(s, j) # 0
        THEN j ELSE 0

\* pattern.search(s).group(1) for a pattern given by its match function At:
\* the capture of the leftmost match, or <<>> when nothing matches.
\* A capture is never empty, so <<>> stands for None.
FirstHit(s, hits, At(_, _)) ==
    IF hits = {} THEN <<>> ELSE NumText(s, At(s, Min(hits)))

SearchGroup(s, At(_, _)) == FirstHit(s, {i \in DOMAIN s : At(s, i) # 0}, At)

\* the value dict[lbl] holds after the findall loop for a pattern given by its
\* match function At: the capture of the last match, or <<>> for no entry
LastHit(s, lbl, hits, At(_, _, _)) ==
    IF hits = {} THEN <<>> ELSE NumText(s, At(s, lbl, Max(hits)))

LastGroup(s, lbl, At(_, _, _)) ==
    LastHit(s, lbl, {i \in DOMAIN s : At(s, lbl, i) # 0}, At)

(***************************************************************************)
(* Numbers.  A float is held in hundredths (Flt(7615) is 76.15), an int as *)
(* itself.  str() and the format specifications print them as Python does. *)
(***************************************************************************)
Flt(n) == [kind |-> "float", s |-> <<>>, n |-> n]

Int_(n) == [kind |-> "int", s |-> <<>>, n |-> n]

IsNaN(v) == v.kind = "nan"

IsNumber(v) == v.kind \in {"float", "int"}

\* the value of a number in hundredths
Hundredths(v) == IF v.kind = "int" THEN v.n * 100 ELSE v.n

DigitSeq == <<"0","1","2","3","4","5","6","7","8","9">>

DigitOf(c) == (CHOOSE i \in DOMAIN DigitSeq : DigitSeq[i] = c) - 1

\* the decimal digits of a natural number
RECURSIVE NatText(_)
NatText(n) ==
    IF n < 10 THEN <<DigitSeq[n + 1]>>
    ELSE NatText(n \div 10) \o <<DigitSeq[(n % 10) + 1]>>

\* the value of a run of decimal digits
RECURSIVE NatValue(_)
NatValue(s) ==
    IF s = <<>> THEN 0
    ELSE NatValue(SubSeq(s, 1, Len(s) - 1)) * 10 + DigitOf(s[Len(s)])

\* the "," option of a format specification: digits grouped in threes
RECURSIVE GroupThousands(_)
GroupThousands(d) ==
    IF Len(d) <= 3 THEN d
    ELSE GroupThousands(SubSeq(d, 1, Len(d) - 3)) \o <<",">>
             \o SubSeq(d, Len(d) - 2, Len(d))

Abs(n) == IF n < 0 THEN -n ELSE n

SignText(n) == IF n < 0 THEN <<"-">> ELSE <<>>

\* two decimal digits of a number of hundredths
TwoDecimals(h) == <<DigitSeq[((h % 100) \div 10) + 1], DigitSeq[(h % 10) + 1]>>

\* f"{x:,.2f}"
FormatComma2f(v) ==
    LET h == Hundredths(v)
    IN  SignText(h) \o GroupThousands(NatText(Abs(h) \div 100)) \o <<".">>
            \o TwoDecimals(Abs(h))

\* round() to an integer, ties to even, of a number of hundredths
RoundHalfEven(h) ==
    LET q == h \div 100
        r == h % 100
    IN  IF r < 50 THEN q
        ELSE IF r > 50 THEN q + 1
        ELSE IF q % 2 = 0 THEN q ELSE q + 1

\* f"{x:,.0f}"
FormatComma0f(v) ==
    LET h == Hundredths(v)
        r == RoundHalfEven(Abs(h))
    IN  SignText(h) \o GroupThousands(NatText(r))

\* repr of a float: the decimals without trailing zeros, at least one
FloatRepr(h) ==
    LET a == Abs(h)
        d == TwoDecimals(a)
    IN  SignText(h) \o NatText(a \div 100) \o <<".">>
            \o (IF d[2] = "0" THEN <<d[1]>> ELSE d)

\* str(v)
ToStr(v) ==
    CASE v.kind = "str" -> v.s
      [] v.kind = "nan" -> TxtNan
      [] v.kind = "float" -> FloatRepr(v.n)
      [] v.kind = "int" -> SignText(v.n) \o NatText(Abs(v.n))

(***************************************************************************)
(* get_metric_type, get_metric_detail and the extractors.                  *)
(***************************************************************************)
MetricTypeOf(s) ==
    IF StartsWith(s, TxtTop1) THEN TxtTop1
    ELSE IF StartsWith(s, TxtMAP)
         THEN (IF Contains(s, Txt50) \/ Contains(s, Txt05)
               THEN TxtMAP50 ELSE TxtMAP)
    ELSE IF StartsWith(s, TxtMIoU) THEN TxtMIoU
    ELSE IF \/ StartsWith(s, TxtAvgPSNR)
            \/ StartsWith(s, TxtPSNR)
            \/ Contains(s, TxtSSIM)
         THEN TxtPSNRSSIM
    ELSE IF \/ StartsWith(s, TxtValAP)
            \/ StartsWith(s, TxtAPParen)
            \/ StartsWith(s, TxtAPSpace)
            \/ StartsWith(s, TxtAP)
         THEN TxtAPTriple
    ELSE <<>>

\* s = value.strip(), then the chain of tests
get_metric_type(value) ==
    IF ~IsStr(value) THEN <<>> ELSE MetricTypeOf(Strip(value.s))

MetricDetailOf(s) ==
    IF Contains(s, TxtAPEasy) THEN TxtAPEasy
    ELSE IF Contains(s, TxtAPMedium) THEN TxtAPMedium
    ELSE IF Contains(s, TxtAPHard) THEN TxtAPHard
    ELSE IF StartsWith(s, TxtTop1) THEN TxtTop1
    ELSE IF StartsWith(s, TxtMAPAt05) \/ Contains(s, TxtMAP50)
         THEN TxtMAPAt05
    ELSE IF StartsWith(s, TxtMAP) THEN TxtMAP
    ELSE IF \/ StartsWith(s, TxtAvgPSNR)
            \/ StartsWith(s, TxtPSNR)
            \/ Contains(s, TxtSSIM)
         THEN TxtPSNRSSIM
    ELSE IF \/ StartsWith(s, TxtValAP)
            \/ StartsWith(s, TxtAPParen)
            \/ StartsWith(s, TxtAPSpace)
            \/ StartsWith(s, TxtAP)
         THEN TxtAP
    ELSE <<>>

get_metric_detail(value) ==
    IF ~IsStr(value) THEN <<>> ELSE MetricDetailOf(Strip(value.s))

\* a if a else b
OrElse(a, b) == IF a # <<>> THEN a ELSE b

\* pairs.get(lbl) after both findall loops: a function-form match replaces a
\* plain one; <<>> stands for None
ApPairsGet(s, lbl) ==
    OrElse(LastGroup(s, lbl, ApFuncAt), LastGroup(s, lbl, ApPairAt))

\* " / ".join(nums[:n]) if len(nums) >= n, else ""
JoinFirst(nums, n) ==
    IF Len(nums) >= n THEN Join(TxtSlash, SubSeq(nums, 1, n)) ELSE <<>>

\* the slots joined in the order Hard, Medium, Easy
ApTripleReversed(s, ordered) ==
    IF \E k \in 1..3 : ordered[k] # <<>>
    THEN Join(TxtSlash, <<ordered[3], ordered[2], ordered[1]>>)
    ELSE JoinFirst(NumFindAll(s), 3)

\* 1) the labelled values if any; 2) else the first three numbers
ApTripleFrom(s, ordered) ==
    IF \E k \in 1..3 : ordered[k] # <<>>
    THEN Join(TxtSlash, ordered)
    ELSE JoinFirst(NumFindAll(s), 3)

ApTripleOf(s) ==
    IF ~ApPreambleFound(s) THEN <<>>
    ELSE ApTripleFrom(s, <<ApPairsGet(s, TxtEasy), ApPairsGet(s, TxtMedium),
                           ApPairsGet(s, TxtHard)>>)

extract_ap_triple_joined(raw) ==
    IF ~IsStr(raw) THEN <<>> ELSE ApTripleOf(Strip(raw.s))

PsnrSsimFrom(s, psnr, ssim) ==
    IF psnr # <<>> \/ ssim # <<>>
    THEN Strip(Join(TxtSlash, <<psnr, ssim>>))
    ELSE JoinFirst(NumFindAll(s), 2)

PsnrSsimOf(s) ==
    PsnrSsimFrom(s, SearchGroup(s, LAMBDA t, q : AvgLabelAt(t, TxtPSNR, q)),
                    SearchGroup(s, LAMBDA t, q : AvgLabelAt(t, TxtSSIM, q)))

extract_psnr_ssim_joined(raw) ==
    IF ~IsStr(raw) THEN <<>> ELSE PsnrSsimOf(Strip(raw.s))

\* the first of _TOP1_RE, _MAP_MAIN, _MAP_050, _FIRST_NUM that matches
PrimaryAccuracyOf(s) ==
    OrElse(SearchGroup(s, Top1At),
    OrElse(SearchGroup(s, MapMainAt),
    OrElse(SearchGroup(s, Map050At),
           SearchGroup(s, LAMBDA t, i : IF FirstNumAt(t, i) THEN i ELSE 0))))

extract_primary_accuracy(value) ==
    IF ~IsStr(value) THEN <<>> ELSE PrimaryAccuracyOf(Strip(value.s))

\* detail if detail in ("AP(Easy)", "AP(Medium)", "AP(Hard)") else major
NewMetric(detail, major) ==
    IF detail \in {TxtAPEasy, TxtAPMedium, TxtAPHard} THEN detail ELSE major

\* the three branches on new_metric (lines 307-320); in the PSNR/SSIM branch
\* the pair taken from the raw text is written to both accuracy fields
WriteAccuracy(raw, npu, new_metric) ==
    IF new_metric = TxtAPTriple
    THEN [metric |-> new_metric,
          raw |-> OrElse(extract_ap_triple_joined(raw),
                         extract_primary_accuracy(raw)),
          npu |-> OrElse(extract_ap_triple_joined(npu),
                         extract_primary_accuracy(npu))]
    ELSE IF new_metric = TxtPSNRSSIM
    THEN [metric |-> new_metric,
          raw |-> OrElse(extract_psnr_ssim_joined(raw),
                         extract_primary_accuracy(raw)),
          npu |-> OrElse(extract_psnr_ssim_joined(raw),
                         extract_primary_accuracy(npu))]
    ELSE [metric |-> new_metric,
          raw |-> extract_primary_accuracy(raw),
          npu |-> extract_primary_accuracy(npu)]

\* one pass of the loop body of _metric_accuracy_parsor: the Metric,
\* Raw Accuracy and NPU Accuracy written for a row, from the two cells read
\* with str(row.get(...))
ParseRow(raw_str, npu_str) ==
    WriteAccuracy(Str(raw_str), Str(npu_str),
                  NewMetric(get_metric_detail(Str(raw_str)),
                            get_metric_type(Str(raw_str))))

(***************************************************************************)
(* Column names and the other literal texts of the pipeline.               *)
(***************************************************************************)
ColTask == <<"T","a","s","k">>

ColName == <<"N","a","m","e">>

ColDataset == <<"D","a","t","a","s","e","t">>

ColInputResolution == <<"I","n","p","u","t"," ","R","e","s","o","l","u","t","i","o","n">>

ColOperations == <<"O","p","e","r","a","t","i","o","n","s">>

ColParameters == <<"P","a","r","a","m","e","t","e","r","s">>

ColLicense == <<"L","i","c","e","n","s","e">>

ColMetric == <<"M","e","t","r","i","c">>

ColRawAccuracy == <<"R","a","w"," ","A","c","c","u","r","a","c","y">>

ColNPUAccuracy == <<"N","P","U"," ","A","c","c","u","r","a","c","y">>

ColFPS == <<"F","P","S">>

ColFPSWatt == <<"F","P","S","/","W","a","t","t">>

ColSource == <<"S","o","u","r","c","e">>

ColCompiled == <<"C","o","m","p","i","l","e","d">>

ColOnnx == <<"o","n","n","x">>

ColJson == <<"j","s","o","n">>

ColFilename == <<"f","i","l","e","n","a","m","e">>

ColModelID == <<"M","o","d","e","l"," ","I","D">>

ColMatchKey == <<"_","m","a","t","c","h","_","k","e","y","_">>

AliasRawAccu == <<"R","a","w"," ","A","c","c","u">>

AliasRawAccuracyDated == <<"R","a","w"," ","A","c","c","u","r","a","c","y","(","2","0","2","5","0","6","0","4",")">>

AliasNPUAccracy == <<"N","P","U"," ","A","c","c","r","a","c","y">>

Alias3npusFps == <<"3","n","p","u","s","_","f","p","s">>

Alias3npusFpsW == <<"3","n","p","u","s","_","F","P","S","/","W">>

AliasReferenceLower == <<"r","e","f","e","r","e","n","c","e">>

AliasReference == <<"R","e","f","e","r","e","n","c","e">>

AliasDxnnLower == <<"d","x","n","n">>

AliasDXNN == <<"D","X","N","N">>

AliasLicenseLower == <<"l","i","c","e","n","s","e">>

TxtUncategorized == <<"U","n","c","a","t","e","g","o","r","i","z","e","d"," ","M","o","d","e","l","s">>

TxtNA == <<"N","/","A">>

TxtNotSpecified == <<"N","o","t"," ","S","p","e","c","i","f","i","e","d">>

SuffixMeta == <<"_","m","e","t","a">>

MetaInputResolutionA == <<"I","n","p","u","t","R","e","s","o","l","u","t","i","o","n">>

MetaInputResolutionB == <<"I","n","p","u","t","_","R","e","s","o","l","u","t","i","o","n">>

MetaOps == <<"O","p","s">>

MetaParams == <<"P","a","r","a","m","s">>

SuffixCsv == <<".","c","s","v">>

SuffixParquet == <<".","p","a","r","q","u","e","t">>

SuffixPq == <<".","p","q">>

(***************************************************************************)
(* A DataFrame: the column labels in order (labels may repeat) and the     *)
(* rows in order, each row holding one value per column.  A call either    *)
(* returns a frame or raises; err names the exception raised.              *)
(***************************************************************************)
Frame(cols, rows) == [cols |-> cols, rows |-> rows]

EmptyFrame == Frame(<<>>, <<>>)

Ok(df) == [err |-> "", df |-> df]

Raise(e) == [err |-> e, df |-> EmptyFrame]

\* the positions i of 1..n with Keep(i), in increasing order
PositionsWhere(n, Keep(_)) == SelectSeq([i \in 1..n |-> i], Keep)

ColIndexes(df, name) == {j \in DOMAIN df.cols : df.cols[j] = name}

\* name in df.columns
HasCol(df, name) == ColIndexes(df, name) # {}

ColPos(df, name) == Min(ColIndexes(df, name))

\* a label occurs more than once
HasDuplicateCols(df) ==
    \E i, j \in DOMAIN df.cols : i # j /\ df.cols[i] = df.cols[j]

\* df[name] for a label that occurs once
Column(df, name) == [r \in DOMAIN df.rows |-> df.rows[r][ColPos(df, name)]]

\* df[name] = vals: in place when the label exists, else a new last column
SetColumn(df, name, vals) ==
    IF HasCol(df, name)
    THEN Frame(df.cols,
               [r \in DOMAIN df.rows |->
                   [j \in DOMAIN df.cols |->
                       IF df.cols[j] = name THEN vals[r] ELSE df.rows[r][j]]])
    ELSE Frame(Append(df.cols, name),
               [r \in DOMAIN df.rows |-> Append(df.rows[r], vals[r])])

\* a scalar assigned to a column
Broadcast(df, v) == [r \in DOMAIN df.rows |-> v]

\* df.drop(columns=...) for the labels that satisfy Drop
DropColumns(df, Drop(_)) ==
    LET keep == PositionsWhere(Len(df.cols), LAMBDA j : ~Drop(df.cols[j]))
    IN  Frame([k \in DOMAIN keep |-> df.cols[keep[k]]],
              [r \in DOMAIN df.rows |->
                  [k \in DOMAIN keep |-> df.rows[r][keep[k]]]])

\* df[names]: every column carrying each label, in the order of names
RECURSIVE SelectPositions(_, _)
SelectPositions(df, names) ==
    IF names = <<>> THEN <<>>
    ELSE PositionsWhere(Len(df.cols), LAMBDA j : df.cols[j] = names[1])
             \o SelectPositions(df, Tail(names))

SelectColumns(df, names) ==
    LET pos == SelectPositions(df, names)
    IN  Frame([k \in DOMAIN pos |-> df.cols[pos[k]]],
              [r \in DOMAIN df.rows |->
                  [k \in DOMAIN pos |-> df.rows[r][pos[k]]]])

(***************************************************************************)
(* COLUMN_ALIAS_MAP, FINAL_COLUMNS, LINK_COLUMNS                           *)
(***************************************************************************)
COLUMN_ALIAS_MAP ==
    << <<AliasRawAccu, ColRawAccuracy>>,
       <<AliasRawAccuracyDated, ColRawAccuracy>>,
       <<AliasNPUAccracy, ColNPUAccuracy>>,
       <<Alias3npusFps, ColFPS>>,
       <<Alias3npusFpsW, ColFPSWatt>>,
       <<AliasReferenceLower, ColSource>>,
       <<AliasReference, ColSource>>,
       <<AliasDxnnLower, ColCompiled>>,
       <<AliasDXNN, ColCompiled>>,
       <<ColOnnx, ColOnnx>>,
       <<ColJson, ColJson>>,
       <<ColModelID, ColName>>,
       <<ColDataset, ColDataset>>,
       <<ColInputResolution, ColInputResolution>>,
       <<ColOperations, ColOperations>>,
       <<ColParameters, ColParameters>>,
       <<AliasLicenseLower, ColLicense>>,
       <<ColRawAccuracy, ColRawAccuracy>>,
       <<ColNPUAccuracy, ColNPUAccuracy>>,
       <<ColFPS, ColFPS>>,
       <<ColTask, ColTask>> >>

FINAL_COLUMNS ==
    <<ColTask, ColName, ColDataset, ColInputResolution, ColOperations,
      ColParameters, ColLicense, ColMetric, ColRawAccuracy, ColNPUAccuracy,
      ColFPS, ColFPSWatt, ColSource, ColCompiled, ColOnnx, ColJson>>

LINK_COLUMNS == <<ColSource, ColCompiled, ColOnnx, ColJson>>

\* the dict built by _lower_alias_map, as its items in insertion order
lower_alias_map(alias_map) ==
    [i \in DOMAIN alias_map |->
        <<StrLower(Strip(alias_map[i][1])), alias_map[i][2]>>]

\* key in d
InDict(d, key) == \E i \in DOMAIN d : d[i][1] = key

\* d[key]: a later item replaces an earlier one with the same key
DictGet(d, key) == d[Max({i \in DOMAIN d : d[i][1] = key})][2]

(***************************************************************************)
(* create_html_link.  The fixed parts of the markup are single elements of *)
(* the text; the URL is spelled out.                                       *)
(***************************************************************************)
create_html_link(url, text) ==
    IF ~IsStr(url) \/ Strip(url.s) = <<>> THEN <<>>
    ELSE <<"<a href=\"">> \o url.s
             \o <<"\" target=\"_blank\" rel=\"noopener noreferrer\" title=\"">>
             \o text \o <<"\">">>
             \o (IF text = ColSource THEN <<"external_link_svg">>
                 ELSE <<"download_svg">>)
             \o <<"</a>">>

(***************************************************************************)
(* pd.to_numeric(errors="coerce") on one cell.  A text is numeric when it  *)
(* is a plain decimal with at most two decimals; the texts of the model    *)
(* are either of that form or hold a character no number holds.            *)
(***************************************************************************)
DotPos(s) == IF \E i \in DOMAIN s : s[i] = "."
             THEN Min({i \in DOMAIN s : s[i] = "."}) ELSE 0

IsPlainDecimal(s) ==
    LET b == IF s # <<>> /\ s[1] = "-" THEN Tail(s) ELSE s
        d == DotPos(b)
    IN  /\ b # <<>>
        /\ \A i \in DOMAIN b : IsDigit(b[i]) \/ i = d
        /\ d # 1
        /\ d # 0 => Len(b) - d \in {1, 2}

ParseNumber(s) ==
    LET neg == s[1] = "-"
        b == IF neg THEN Tail(s) ELSE s
        d == DotPos(b)
        whole == NatValue(IF d = 0 THEN b ELSE SubSeq(b, 1, d - 1))
        frac == IF d = 0 THEN 0
                ELSE IF Len(b) - d = 1 THEN DigitOf(b[d + 1]) * 10
                ELSE DigitOf(b[d + 1]) * 10 + DigitOf(b[d + 2])
        h == whole * 100 + frac
    IN  IF d = 0 THEN Int_(IF neg THEN -whole ELSE whole)
        ELSE Flt(IF neg THEN -h ELSE h)

ToNumeric(v) ==
    IF IsStr(v) THEN (IF IsPlainDecimal(v.s) THEN ParseNumber(v.s) ELSE NaN)
    ELSE v

(***************************************************************************)
(* _metric_accuracy_parsor                                                 *)
(***************************************************************************)
\* str(row.get(name, ""))
RowGetStr(df, r, name) ==
    IF HasCol(df, name) THEN ToStr(df.rows[r][ColPos(df, name)]) ELSE <<>>

\* The rows are rebuilt with pd.DataFrame(out_rows): no row gives a frame
\* without columns, and rows whose labels repeat raise InvalidIndexError.
WriteParsed(df, parsed) ==
    SetColumn(
        SetColumn(
            SetColumn(df, ColMetric,
                      [r \in DOMAIN df.rows |-> Str(parsed[r].metric)]),
            ColRawAccuracy, [r \in DOMAIN df.rows |-> Str(parsed[r].raw)]),
        ColNPUAccuracy, [r \in DOMAIN df.rows |-> Str(parsed[r].npu)])

metric_accuracy_parsor(df) ==
    IF df.rows = <<>> THEN Ok(EmptyFrame)
    ELSE IF HasDuplicateCols(df) THEN Raise("InvalidIndexError")
    ELSE Ok(WriteParsed(df, [r \in DOMAIN df.rows |->
                                ParseRow(RowGetStr(df, r, ColRawAccuracy),
                                         RowGetStr(df, r, ColNPUAccuracy))]))

(***************************************************************************)
(* dedupe_and_bfill_column                                                 *)
(***************************************************************************)
\* cols.bfill(axis=1).iloc[:, 0]: the leftmost value that is not NaN
FirstNotNaN(row, idx) ==
    LET present == {j \in idx : ~IsNaN(row[j])}
    IN  IF present = {} THEN NaN ELSE row[Min(present)]

\* the duplicates merged right to left: the last value that is not NaN
DedupeKeepRightmost(df, colname) ==
    LET idx == ColIndexes(df, colname)
        present(r) == {j \in idx : ~IsNaN(df.rows[r][j])}
        merged == [r \in DOMAIN df.rows |->
                      IF present(r) = {} THEN NaN ELSE df.rows[r][Max(present(r))]]
    IN  IF Cardinality(idx) > 1
        THEN SetColumn(DropColumns(df, LAMBDA c : c = colname), colname, merged)
        ELSE df

dedupe_and_bfill_column(df, colname) ==
    LET idx == ColIndexes(df, colname)
        merged == [r \in DOMAIN df.rows |-> FirstNotNaN(df.rows[r], idx)]
    IN  IF Cardinality(idx) > 1
        THEN SetColumn(DropColumns(df, LAMBDA c : c = colname), colname, merged)
        ELSE df

(***************************************************************************)
(* normalize_and_process, step by step                                     *)
(***************************************************************************)
\* 0) df.columns = [str(c).strip() for c in df.columns]
StripHeaders(df) == Frame([j \in DOMAIN df.cols |-> Strip(df.cols[j])], df.rows)

\* re.sub(r"^\d+\.\s*", "", s)
StripOrdinal(s) ==
    IF IsDigit(CharAt(s, 1)) /\ CharAt(s, DigitRunEnd(s, 1) + 1) = "."
    THEN From(s, SkipSpaces(s, DigitRunEnd(s, 1) + 2))
    ELSE s

\* 1) Task: a repeated Task label makes df["Task"] a frame, which has no .str
CleanTask(df) ==
    IF HasCol(df, ColTask)
    THEN IF Cardinality(ColIndexes(df, ColTask)) > 1
         THEN Raise("AttributeError")
         ELSE Ok(SetColumn(df, ColTask,
                  [r \in DOMAIN df.rows |->
                      Str(Strip(StripOrdinal(ToStr(Column(df, ColTask)[r]))))]))
    ELSE Ok(SetColumn(df, ColTask, Broadcast(df, Str(TxtUncategorized))))

\* 2) the case-insensitive rename
RenameColumns(df) ==
    LET lower_alias == lower_alias_map(COLUMN_ALIAS_MAP)
    IN  Frame([j \in DOMAIN df.cols |->
                  IF InDict(lower_alias, StrLower(df.cols[j]))
                  THEN DictGet(lower_alias, StrLower(df.cols[j]))
                  ELSE df.cols[j]],
              df.rows)

\* 3) Name from filename, from Model ID, or "N/A"
FillName(df) ==
    LET need_fill_name ==
            \/ ~HasCol(df, ColName)
            \/ \A r \in DOMAIN df.rows : IsNaN(Column(df, ColName)[r])
    IN  IF ~need_fill_name THEN Ok(df)
        ELSE IF HasCol(df, ColFilename)
             THEN IF Cardinality(ColIndexes(df, ColFilename)) > 1
                  THEN Raise("ValueError")
                  ELSE Ok(SetColumn(df, ColName, Column(df, ColFilename)))
        ELSE IF HasCol(df, ColModelID)
             THEN IF Cardinality(ColIndexes(df, ColModelID)) > 1
                  THEN Raise("ValueError")
                  ELSE Ok(SetColumn(df, ColName, Column(df, ColModelID)))
        ELSE Ok(SetColumn(df, ColName, Broadcast(df, Str(TxtNA))))

\* step 5 left out
FillRequiredNone(df, names) == df

\* 5) every missing column of FINAL_COLUMNS is added, holding ""
RECURSIVE FillRequired(_, _)
FillRequired(df, names) ==
    IF names = <<>> THEN df
    ELSE FillRequired(
             IF HasCol(df, names[1]) THEN df
             ELSE SetColumn(df, names[1], Broadcast(df, Str(<<>>))),
             Tail(names))

\* 6) the link columns become anchors
RECURSIVE RenderLinks(_, _)
RenderLinks(df, names) ==
    IF names = <<>> THEN df
    ELSE RenderLinks(
             SetColumn(df, names[1],
                 [r \in DOMAIN df.rows |->
                     Str(create_html_link(Column(df, names[1])[r], names[1]))]),
             Tail(names))

\* 7) to_numeric, then the format of each numeric column
FormatColumn(df, name, Fmt(_)) ==
    SetColumn(df, name,
        [r \in DOMAIN df.rows |->
            LET x == ToNumeric(Column(df, name)[r])
            IN  IF IsNumber(x) THEN Str(Fmt(x)) ELSE Str(<<>>)])

FormatNumbers(df) ==
    FormatColumn(
        FormatColumn(
            FormatColumn(
                FormatColumn(df, ColOperations, FormatComma2f),
                ColParameters, FormatComma2f),
            ColFPS, FormatComma0f),
        ColFPSWatt, FormatComma2f)

\* df["_match_key_"] = df["Name"].astype(str).map(_normalize_key)
AddMatchKey(df, nameCol) ==
    SetColumn(df, ColMatchKey,
        [r \in DOMAIN df.rows |->
            Str(normalize_key(Str(ToStr(Column(df, nameCol)[r]))))])

\* License: NaN and blank become "Not Specified"
FillLicense(df) ==
    IF HasCol(df, ColLicense)
    THEN SetColumn(df, ColLicense,
             [r \in DOMAIN df.rows |->
                 LET v == Column(df, ColLicense)[r]
                 IN  IF IsNaN(v) \/ Strip(ToStr(v)) = <<>>
                     THEN Str(TxtNotSpecified) ELSE v])
    ELSE df

\* an exception ends the function; otherwise the next step gets the frame
Then(res, F(_)) == IF res.err # "" THEN res ELSE F(res.df)

\* if "Name" not in df.columns: df["Name"] = "N/A" (lines 390-391)
EnsureName(df) ==
    IF HasCol(df, ColName) THEN df
    ELSE SetColumn(df, ColName, Broadcast(df, Str(TxtNA)))

\* the frame when the merge step is reached (lines 330-396), or the exception
BeforeMerge(df0) ==
    Then(CleanTask(StripHeaders(df0)), LAMBDA d1 :
    Then(FillName(dedupe_and_bfill_column(
                      dedupe_and_bfill_column(RenameColumns(d1), ColName),
                      ColLicense)), LAMBDA d3 :
    Then(metric_accuracy_parsor(d3), LAMBDA d4 :
    Ok(FillLicense(AddMatchKey(
           EnsureName(FormatNumbers(RenderLinks(
               FillRequired(d4, FINAL_COLUMNS), LINK_COLUMNS))),
           ColName))))))

(***************************************************************************)
(* pd.read_csv: a file is its header and its rows of cell texts.  A cell   *)
(* holding one of the default NA texts is NaN; a column whose other cells  *)
(* are all numbers is numeric (int64 when it has no NaN and no decimals,   *)
(* else float64); any other column holds its texts.                        *)
(***************************************************************************)
NATexts ==
    {<<>>, <<"N","/","A">>, <<"N","A">>, <<"n","a","n">>, <<"N","a","N">>,
     <<"n","u","l","l">>, <<"n","/","a">>, <<"N","U","L","L">>}

\* a numeric column has one dtype: ints stay ints only if every cell is one
UpcastInts(vals) ==
    IF \E r \in DOMAIN vals : vals[r].kind # "int"
    THEN [r \in DOMAIN vals |->
             IF vals[r].kind = "int" THEN Flt(vals[r].n * 100) ELSE vals[r]]
    ELSE vals

ReadColumn(texts) ==
    IF \A r \in DOMAIN texts : texts[r] \in NATexts \/ IsPlainDecimal(texts[r])
    THEN UpcastInts([r \in DOMAIN texts |->
                        IF texts[r] \in NATexts THEN NaN
                        ELSE ParseNumber(texts[r])])
    ELSE [r \in DOMAIN texts |->
             IF texts[r] \in NATexts THEN NaN ELSE Str(texts[r])]

read_csv(file) ==
    LET col(j) == ReadColumn([r \in DOMAIN file.rows |-> file.rows[r][j]])
    IN  Frame(file.header,
              [r \in DOMAIN file.rows |->
                  [j \in DOMAIN file.header |-> col(j)[r]]])

(***************************************************************************)
(* load_meta                                                               *)
(***************************************************************************)
\* the rename_map of load_meta, in order
MetaRenameMap ==
    << <<MetaInputResolutionA, ColInputResolution>>,
       <<MetaInputResolutionB, ColInputResolution>>,
       <<MetaOps, ColOperations>>,
       <<MetaParams, ColParameters>> >>

RECURSIVE MetaRename(_, _)
MetaRename(meta, renames) ==
    IF renames = <<>> THEN meta
    ELSE MetaRename(
             IF HasCol(meta, renames[1][1]) /\ ~HasCol(meta, renames[1][2])
             THEN Frame([j \in DOMAIN meta.cols |->
                            IF meta.cols[j] = renames[1][1]
                            THEN renames[1][2] ELSE meta.cols[j]],
                        meta.rows)
             ELSE meta,
             Tail(renames))

MetaRequired == <<ColName, ColInputResolution, ColOperations, ColParameters>>

\* no row dropped
DropDuplicatesKeepAll(df, name) == df

\* keep="first"
DropDuplicatesKeepOldest(df, name) ==
    LET key == Column(df, name)
        keep == PositionsWhere(Len(df.rows),
                    LAMBDA r : \A q \in DOMAIN df.rows : q < r => key[q] # key[r])
    IN  Frame(df.cols, [k \in DOMAIN keep |-> df.rows[keep[k]]])

\* drop_duplicates(subset=[name], keep="last")
DropDuplicatesKeepLast(df, name) ==
    LET key == Column(df, name)
        keep == PositionsWhere(Len(df.rows),
                    LAMBDA r : \A q \in DOMAIN df.rows : q > r => key[q] # key[r])
    IN  Frame(df.cols, [k \in DOMAIN keep |-> df.rows[keep[k]]])

\* pd.to_numeric(column, errors="coerce")
ToNumericColumn(df, name) ==
    SetColumn(df, name,
        UpcastInts([r \in DOMAIN df.rows |-> ToNumeric(Column(df, name)[r])]))

\* a path is whether it exists, its suffix and the table stored there
load_meta(path) ==
    LET meta0 == StripHeaders(read_csv(path.table))
        meta1 == MetaRename(meta0, MetaRenameMap)
        missing == {i \in DOMAIN MetaRequired : ~HasCol(meta1, MetaRequired[i])}
        meta2 == AddMatchKey(meta1, ColName)
        meta3 == DropDuplicatesKeepLast(meta2, ColMatchKey)
        meta4 == ToNumericColumn(ToNumericColumn(meta3, ColOperations),
                                 ColParameters)
    IN  IF ~path.exists THEN Raise("FileNotFoundError")
        ELSE IF StrLower(path.suffix) \notin {SuffixCsv, SuffixParquet, SuffixPq}
             THEN Raise("ValueError: unsupported format")
        ELSE IF missing # {} THEN Raise("ValueError: missing columns")
        ELSE Ok(SelectColumns(meta4,
                 <<ColMatchKey, ColInputResolution, ColOperations,
                   ColParameters>>))

(***************************************************************************)
(* The left join and _fill_if_empty                                        *)
(***************************************************************************)
EndsWith(s, p) ==
    Len(p) <= Len(s) /\ SubSeq(s, Len(s) - Len(p) + 1, Len(s)) = p

\* the rows of right whose key equals k, in order
MatchesOf(right, k) ==
    SelectSeq(right.rows, LAMBDA row : row[ColPos(right, ColMatchKey)] = k)

RECURSIVE Flatten(_)
Flatten(ss) == IF ss = <<>> THEN <<>> ELSE ss[1] \o Flatten(Tail(ss))

\* df.merge(meta, on="_match_key_", how="left", suffixes=("", "_meta")):
\* every left row in order, once per matching right row, or once with NaN;
\* an int64 column of the right side becomes float64 when a row has no match
merge_left(left, right) ==
    LET rpos == PositionsWhere(Len(right.cols),
                    LAMBDA j : right.cols[j] # ColMatchKey)
        rname(j) == IF HasCol(left, right.cols[j])
                    THEN right.cols[j] \o SuffixMeta ELSE right.cols[j]
        keyOf(r) == left.rows[r][ColPos(left, ColMatchKey)]
        unmatched == \E r \in DOMAIN left.rows : MatchesOf(right, keyOf(r)) = <<>>
        intCol(j) == \A q \in DOMAIN right.rows : right.rows[q][j].kind = "int"
        cast(j, v) == IF unmatched /\ intCol(j) /\ v.kind = "int"
                      THEN Flt(v.n * 100) ELSE v
        joined(r) ==
            IF MatchesOf(right, keyOf(r)) = <<>>
            THEN <<left.rows[r] \o [k \in DOMAIN rpos |-> NaN]>>
            ELSE [m \in DOMAIN MatchesOf(right, keyOf(r)) |->
                     left.rows[r] \o
                         [k \in DOMAIN rpos |->
                             cast(rpos[k], MatchesOf(right, keyOf(r))[m][rpos[k]])]]
    IN  Frame(left.cols \o [k \in DOMAIN rpos |-> rname(rpos[k])],
              Flatten([r \in DOMAIN left.rows |-> joined(r)]))

\* df[base] = df[base].where(df[base].astype(str).str.len() > 0, df[meta])
FillIfEmptyKeepAll(df, base_col, meta_col) == df

FillIfEmptyOverwrite(df, base_col, meta_col) ==
    SetColumn(df, base_col, Column(df, meta_col))

fill_if_empty(df, base_col, meta_col) ==
    LET d == IF HasCol(df, base_col) THEN df
             ELSE SetColumn(df, base_col, Broadcast(df, Str(<<>>)))
    IN  SetColumn(d, base_col,
            [r \in DOMAIN d.rows |->
                IF Len(ToStr(Column(d, base_col)[r])) > 0
                THEN Column(d, base_col)[r]
                ELSE Column(d, meta_col)[r]])

\* lines 400-415, given the frame at the merge step and the loaded meta
MergeMeta(df, meta) ==
    LET m == merge_left(df, meta)
        f == fill_if_empty(
                 fill_if_empty(
                     fill_if_empty(m, ColInputResolution,
                                   ColInputResolution \o SuffixMeta),
                     ColOperations, ColOperations \o SuffixMeta),
                 ColParameters, ColParameters \o SuffixMeta)
    IN  DropColumns(f, LAMBDA c : EndsWith(c, SuffixMeta))

\* meta_path is None, or a path; explicit tells a path named with --meta
\* from the default of that option
NoPath == [given |-> FALSE, explicit |-> FALSE, exists |-> FALSE,
           suffix |-> <<>>, table |-> [header |-> <<>>, rows |-> <<>>]]

\* an exception of load_meta is swallowed: the run goes on without enrichment
FinishProcessTolerant(b, meta_path, meta) ==
    IF b.err # "" THEN b
    ELSE IF ~meta_path.given \/ meta.err # ""
         THEN Ok(SelectColumns(b.df, FINAL_COLUMNS))
    ELSE Ok(SelectColumns(MergeMeta(b.df, meta.df), FINAL_COLUMNS))

\* lines 399-419, given the result b of the steps before the merge and the
\* result meta of load_meta
FinishProcess(b, meta_path, meta) ==
    IF b.err # "" THEN b
    ELSE IF ~meta_path.given THEN Ok(SelectColumns(b.df, FINAL_COLUMNS))
    ELSE IF meta.err # "" THEN meta
    ELSE Ok(SelectColumns(MergeMeta(b.df, meta.df), FINAL_COLUMNS))

normalize_and_process(df0, meta_path) ==
    FinishProcess(BeforeMerge(df0), meta_path, load_meta(meta_path))

(***************************************************************************)
(* dataframe_grouped_html: one section per distinct Task, in the order of  *)
(* first appearance, each with its rows in order                           *)
(***************************************************************************)
\* the distinct values in the order of their last appearance
DropDuplicatesKeepLastSeen(vals) ==
    LET keep == PositionsWhere(Len(vals),
                    LAMBDA r : \A q \in DOMAIN vals : q > r => vals[q] # vals[r])
    IN  [k \in DOMAIN keep |-> vals[keep[k]]]

\* pd.Series(values).drop_duplicates().tolist()
DropDuplicatesKeepFirst(vals) ==
    LET keep == PositionsWhere(Len(vals),
                    LAMBDA r : \A q \in DOMAIN vals : q < r => vals[q] # vals[r])
    IN  [k \in DOMAIN keep |-> vals[keep[k]]]

dataframe_grouped_html(df) ==
    LET tasks == IF HasCol(df, ColTask)
                 THEN [r \in DOMAIN df.rows |-> ToStr(Column(df, ColTask)[r])]
                 ELSE <<>>
        task_order == IF tasks # <<>> THEN DropDuplicatesKeepFirst(tasks)
                      ELSE <<TxtUncategorized>>
        sub(t) == SelectSeq(df.rows,
                            LAMBDA row : row[ColPos(df, ColTask)] = Str(t))
        shown == PositionsWhere(Len(task_order),
                                LAMBDA k : sub(task_order[k]) # <<>>)
    IN  [k \in DOMAIN shown |->
            [task |-> task_order[shown[k]], rows |-> sub(task_order[shown[k]])]]

(***************************************************************************)
(* State.                                                                  *)
(***************************************************************************)
VARIABLES
    kpc,           \* where the calls of _normalize_key are
    kIn,           \* the value _normalize_key is called on
    kVar,          \* a second text, one edit away from kIn
    kOut,          \* _normalize_key(kIn)
    kTwice,        \* _normalize_key(kOut)
    kVarOut,       \* _normalize_key(kVar)
    pc,            \* where the run of generate_model_zoo_html is
    csv_path,      \* the primary input: whether it exists, and its table
    meta_path,     \* the enrichment path, or NoPath for None
    df_raw,        \* pd.read_csv(csv_path)
    base,          \* the frame normalize_and_process holds at the merge step
    enrich,        \* what load_meta returned
    df_processed,  \* what normalize_and_process returned
    body_html,     \* the sections of dataframe_grouped_html
    out_file,      \* the sections written to html_path
    written,       \* whether html_path was written
    printed,       \* the lines printed
    err            \* the exception that ended the run, or ""

keyVars == <<kpc, kIn, kVar, kOut, kTwice, kVarOut>>

runVars == <<pc, csv_path, meta_path, df_raw, base, enrich, df_processed,
             body_html, out_file, written, printed, err>>

vars == <<kpc, kIn, kVar, kOut, kTwice, kVarOut, pc, csv_path, meta_path,
          df_raw, base, enrich, df_processed, body_html, out_file, written,
          printed, err>>

\* the variables of a part that a specification leaves alone
KeyIdle ==
    /\ kpc = "idle"
    /\ kIn = NaN
    /\ kVar = NaN
    /\ kOut = <<>>
    /\ kTwice = <<>>
    /\ kVarOut = <<>>

RunIdle ==
    /\ pc = "idle"
    /\ csv_path = [exists |-> FALSE, table |-> [header |-> <<>>, rows |-> <<>>]]
    /\ meta_path = NoPath
    /\ df_raw = EmptyFrame
    /\ base = Ok(EmptyFrame)
    /\ enrich = Ok(EmptyFrame)
    /\ df_processed = EmptyFrame
    /\ body_html = <<>>
    /\ out_file = <<>>
    /\ written = FALSE
    /\ printed = <<>>
    /\ err = ""

(***************************************************************************)
(* Calls of _normalize_key on a value, on its own result, and on a second  *)
(* text that differs from the first by one edit of letter case or of       *)
(* whitespace.                                                             *)
(***************************************************************************)
MaxKeyLen == 3

KeyAlphabet == {"a", "A", "b", " ", "\t"}

TextsUpTo(alphabet, n) == UNION {[1..k -> alphabet] : k \in 0..n}

KeyInputs ==
    {Str(s) : s \in TextsUpTo(KeyAlphabet, MaxKeyLen)} \cup {NaN, Flt(300)}

\* s with the character at position i replaced by c
ReplaceAt(s, i, c) == [s EXCEPT ![i] = c]

\* s with c inserted before position i (i = Len(s) + 1 appends)
InsertAt(s, i, c) == SubSeq(s, 1, i - 1) \o <<c>> \o SubSeq(s, i, Len(s))

\* position i lies strictly inside s, next to a whitespace character that is
\* itself neither leading nor trailing
InInternalRun(s, i) ==
    /\ i \in 2..Len(s)
    /\ \/ IsSpace(s[i - 1]) /\ LStrip(SubSeq(s, 1, i - 1)) # <<>>
                            /\ RStrip(From(s, i)) # <<>>
       \/ IsSpace(s[i]) /\ LStrip(SubSeq(s, 1, i)) # <<>>
                        /\ RStrip(From(s, i)) # <<>>

CaseEdits(s) ==
    {ReplaceAt(s, i, UpperChar(s[i])) : i \in DOMAIN s}
        \cup {ReplaceAt(s, i, LowerChar(s[i])) : i \in DOMAIN s}

OuterSpaceEdits(s) ==
    {<<c>> \o s : c \in SpaceChars} \cup {s \o <<c>> : c \in SpaceChars}

InnerSpaceEdits(s) ==
    {InsertAt(s, i, c) : i \in {j \in DOMAIN s : InInternalRun(s, j)},
                         c \in SpaceChars}

KeyStart ==
    /\ kpc = "start"
    /\ kIn \in KeyInputs
    /\ kVar = kIn
    /\ kOut = <<>>
    /\ kTwice = <<>>
    /\ kVarOut = <<>>

KeyInit == KeyStart /\ RunIdle

KeyVaryCase ==
    /\ kpc = "start"
    /\ IsStr(kIn)
    /\ \E t \in CaseEdits(kIn.s) : kVar' = Str(t)
    /\ kpc' = "varied"
    /\ UNCHANGED <<kIn, kOut, kTwice, kVarOut>>
    /\ UNCHANGED runVars

KeyVaryOuterSpace ==
    /\ kpc = "start"
    /\ IsStr(kIn)
    /\ \E t \in OuterSpaceEdits(kIn.s) : kVar' = Str(t)
    /\ kpc' = "varied"
    /\ UNCHANGED <<kIn, kOut, kTwice, kVarOut>>
    /\ UNCHANGED runVars

KeyVaryInnerSpace ==
    /\ kpc = "start"
    /\ IsStr(kIn)
    /\ \E t \in InnerSpaceEdits(kIn.s) : kVar' = Str(t)
    /\ kpc' = "varied"
    /\ UNCHANGED <<kIn, kOut, kTwice, kVarOut>>
    /\ UNCHANGED runVars

KeyKeep ==
    /\ kpc = "start"
    /\ kpc' = "varied"
    /\ UNCHANGED <<kIn, kVar, kOut, kTwice, kVarOut>>
    /\ UNCHANGED runVars

KeyCall ==
    /\ kpc = "varied"
    /\ kOut' = normalize_key(kIn)
    /\ kVarOut' = normalize_key(kVar)
    /\ kpc' = "called"
    /\ UNCHANGED <<kIn, kVar, kTwice>>
    /\ UNCHANGED runVars

KeyCallAgain ==
    /\ kpc = "called"
    /\ kTwice' = normalize_key(Str(kOut))
    /\ kpc' = "done"
    /\ UNCHANGED <<kIn, kVar, kOut, kVarOut>>
    /\ UNCHANGED runVars

KeyNext ==
    \/ KeyVaryCase
    \/ KeyVaryOuterSpace
    \/ KeyVaryInnerSpace
    \/ KeyKeep
    \/ KeyCall
    \/ KeyCallAgain

(***************************************************************************)
(* One run of generate_model_zoo_html(csv_path, html_path, meta_path).     *)
(***************************************************************************)
\* the headers a primary table may carry: the name, the texts its cells may
\* hold, and the group of columns the code relates it to
PrimaryVocabulary ==
    << <<<<"T","a","s","k">>,
         {<<"1","."," ","C","l","s">>, <<"C","l","s">>, <<"D","e","t">>}, "task">>,
       <<<<"t","a","s","k">>,
         {<<"C","l","s">>, <<"D","e","t">>}, "task">>,
       <<<<"N","a","m","e">>,
         {<<>>, <<"F","o","o">>, <<"B","a","r">>}, "name">>,
       <<<<" ","N","a","m","e">>,
         {<<>>, <<"B","a","z">>}, "name">>,
       <<<<"M","o","d","e","l"," ","I","D">>,
         {<<>>, <<"M","1">>}, "name">>,
       <<<<"f","i","l","e","n","a","m","e">>,
         {<<>>, <<"f",".","o","n","n","x">>}, "name">>,
       <<<<"L","i","c","e","n","s","e">>,
         {<<>>, <<"A","p","a","c","h","e">>}, "license">>,
       <<<<"l","i","c","e","n","s","e">>,
         {<<>>, <<"M","I","T">>}, "license">>,
       <<<<"D","a","t","a","s","e","t">>,
         {<<>>, <<"C","O","C","O">>}, "other">>,
       <<<<"N","o","t","e">>,
         {<<>>, <<"h","i">>}, "other">>,
       <<<<"I","n","p","u","t"," ","R","e","s","o","l","u","t","i","o","n">>,
         {<<>>, <<"6","4","0","x","6","4","0">>}, "scale">>,
       <<<<"O","p","e","r","a","t","i","o","n","s">>,
         {<<>>, <<"3",".","0">>, <<"T","B","D">>}, "scale">>,
       <<<<"P","a","r","a","m","e","t","e","r","s">>,
         {<<>>, <<"1","2","3","4",".","5">>}, "scale">>,
       <<<<"R","a","w"," ","A","c","c","u","r","a","c","y">>,
         {<<>>, <<"P","S","N","R"," ","3","1",".","7"," ","S","S","I","M"," ","0",".","8","9">>, <<"P","S","N","R"," ","3","0"," ","S","S","I","M"," ","0",".","8">>}, "accuracy">>,
       <<<<"R","a","w"," ","A","c","c","u">>,
         {<<>>, <<"7","6",".","1">>}, "accuracy">>,
       <<<<"N","P","U"," ","A","c","c","u","r","a","c","y">>,
         {<<>>, <<"P","S","N","R"," ","2","9",".","5">>}, "accuracy">>,
       <<<<"F","P","S">>,
         {<<>>, <<"1","2","3","4",".","5">>, <<"f","a","s","t">>}, "fps">>,
       <<<<"3","n","p","u","s","_","f","p","s">>,
         {<<>>, <<"6","0">>}, "fps">>,
       <<<<"3","n","p","u","s","_","F","P","S","/","W">>,
         {<<>>, <<"1",".","2","5">>}, "fps">>,
       <<<<"r","e","f","e","r","e","n","c","e">>,
         {<<>>, <<"h","t","t","p",":","/","/","a">>, <<"f","t","p",":","/","/","x">>}, "link">>,
       <<<<"R","e","f","e","r","e","n","c","e">>,
         {<<>>, <<"h","t","t","p","s",":","/","/","r">>}, "link">>,
       <<<<"o","n","n","x">>,
         {<<>>, <<"h","t","t","p","s",":","/","/","o">>}, "link">> >>

\* the part of it the merge step reads
MergeVocabulary ==
    << <<<<"N","a","m","e">>,
         {<<>>, <<"F","o","o">>, <<"B","a","r">>}, "name">>,
       <<<<"I","n","p","u","t"," ","R","e","s","o","l","u","t","i","o","n">>,
         {<<>>, <<"6","4","0","x","6","4","0">>}, "scale">>,
       <<<<"O","p","e","r","a","t","i","o","n","s">>,
         {<<>>, <<"3",".","0">>, <<"T","B","D">>}, "scale">>,
       <<<<"P","a","r","a","m","e","t","e","r","s">>,
         {<<>>, <<"1","2","3","4",".","5">>}, "scale">> >>

\* the rows an enrichment table may hold: Name, Input Resolution, Operations,
\* Parameters
MetaRows ==
    {<<<<>>, <<"2","2","4">>, <<"4",".","1","2">>, <<"2","5",".","5">>>>,
     <<<<>>, <<"3","2","0","x","3","2","0">>, <<"x">>, <<>>>>,
     <<<<"f","o","o">>, <<"2","2","4">>, <<"4",".","1","2">>, <<"2","5",".","5">>>>,
     <<<<"f","o","o">>, <<"3","2","0","x","3","2","0">>, <<"x">>, <<>>>>,
     <<<<"F","O","O"," ">>, <<"2","2","4">>, <<"4",".","1","2">>, <<"2","5",".","5">>>>,
     <<<<"F","O","O"," ">>, <<"3","2","0","x","3","2","0">>, <<"x">>, <<>>>>,
     <<<<"B","a","r">>, <<"2","2","4">>, <<"4",".","1","2">>, <<"2","5",".","5">>>>,
     <<<<"B","a","r">>, <<"3","2","0","x","3","2","0">>, <<"x">>, <<>>>>}

\* the fragments an accuracy text is built from, joined by single spaces
AccuracyItems ==
    {<<"T","o","p","1">>,
     <<"m","A","P">>,
     <<"A","P">>,
     <<"V","a","l">>,
     <<"E","a","s","y"," ","9","5",".","4">>,
     <<"M","e","d","i","u","m"," ","9","3">>,
     <<"H","a","r","d"," ","8","5">>,
     <<"A","P","(","E","a","s","y",")"," ","9","5",".","1">>,
     <<"A","P","(","H","a","r","d",")"," ","8","0">>,
     <<"9","5"," ","/"," ","9","3"," ","/"," ","8","5">>}

MaxItems == 3

MinItems == 1

\* the accuracy texts of at most n fragments
TextsOfItems(n) ==
    {Join(<<" ">>, q) : q \in UNION {[1..k -> AccuracyItems] : k \in 0..n}}

MetricHeader == <<ColRawAccuracy, ColNPUAccuracy>>

\* one-row tables of a raw and a device accuracy text, one of them long
MetricTables ==
    {[header |-> MetricHeader, rows |-> <<t>>] :
        t \in (TextsOfItems(MaxItems) \X TextsOfItems(MinItems))
                  \cup (TextsOfItems(MinItems) \X TextsOfItems(MaxItems))}

MaxCols == 2

MaxRows == 2

MaxMetaRows == 2

VocabNames(V) == {V[i][1] : i \in DOMAIN V}

VocabEntry(V, name) == V[CHOOSE i \in DOMAIN V : V[i][1] = name]

TextsFor(V, name) == VocabEntry(V, name)[2]

GroupOf(V, name) == VocabEntry(V, name)[3]

\* the headers of 1..n distinct names
Headers(V, n) ==
    {h \in UNION {[1..k -> VocabNames(V)] : k \in 1..n} :
        \A i, j \in DOMAIN h : i # j => h[i] # h[j]}

\* two columns the code relates: they belong to one group, or one is Name
Related(V, a, b) == GroupOf(V, a) = GroupOf(V, b) \/ ColName \in {a, b}

SchemaHeaders ==
    {h \in Headers(PrimaryVocabulary, MaxCols) :
        \A i, j \in DOMAIN h : Related(PrimaryVocabulary, h[i], h[j])}

MergeHeaders ==
    {h \in Headers(MergeVocabulary, MaxCols) : Len(h) > 1 => h[1] = ColName}

RECURSIVE RowsOf(_, _)
RowsOf(V, h) ==
    IF h = <<>> THEN {<<>>}
    ELSE {<<c>> \o rest : c \in TextsFor(V, h[1]), rest \in RowsOf(V, Tail(h))}

\* the tables with a header of H and at most n rows
TablesOf(V, H, n) ==
    UNION {{[header |-> h, rows |-> rs] :
               rs \in UNION {[1..k -> RowsOf(V, h)] : k \in 0..n}} : h \in H}

FilePath(ex, sfx, tbl) ==
    [given |-> TRUE, explicit |-> TRUE, exists |-> ex, suffix |-> sfx,
     table |-> tbl]

\* the default of --meta, Path("meta.csv"), which main passes on when the
\* option is not used
DefaultMetaPath(ex, tbl) ==
    [given |-> TRUE, explicit |-> FALSE, exists |-> ex, suffix |-> SuffixCsv,
     table |-> tbl]

NoTable == [header |-> <<>>, rows |-> <<>>]

RunStart ==
    /\ pc = "start"
    /\ df_raw = EmptyFrame
    /\ base = Ok(EmptyFrame)
    /\ enrich = Ok(EmptyFrame)
    /\ df_processed = EmptyFrame
    /\ body_html = <<>>
    /\ out_file = <<>>
    /\ written = FALSE
    /\ printed = <<>>
    /\ err = ""

MetaHeader == <<ColName, ColInputResolution, ColOperations, ColParameters>>

MetaHeaderAliased == <<ColName, MetaInputResolutionA, MetaOps, MetaParams>>

MetaHeaderIncomplete == <<ColName, ColOperations>>

\* a small enrichment table used with every primary table
SampleMeta ==
    [header |-> MetaHeader,
     rows |-> << <<<<"f","o","o">>, <<"2","2","4">>, <<"4",".","1","2">>,
                   <<"2","5",".","5">>>> >>]

SampleMetaAliased == [header |-> MetaHeaderAliased, rows |-> SampleMeta.rows]

SampleMetaIncomplete ==
    [header |-> MetaHeaderIncomplete,
     rows |-> << <<<<"f","o","o">>, <<"4",".","1","2">>>> >>]

\* paths on which load_meta raises
FailingMetaPaths ==
    {FilePath(FALSE, SuffixCsv, NoTable),
     FilePath(TRUE, <<".","t","x","t">>, SampleMeta),
     FilePath(TRUE, SuffixCsv, SampleMetaIncomplete)}

SchemaMetaPaths == {NoPath, FilePath(TRUE, SuffixCsv, SampleMeta)}

\* a run of main without --meta: meta.csv is missing, or is there
DefaultMetaPaths ==
    {DefaultMetaPath(FALSE, NoTable), DefaultMetaPath(TRUE, SampleMeta)}

MetaTables ==
    {[header |-> MetaHeader, rows |-> rs] :
        rs \in UNION {[1..k -> MetaRows] : k \in 0..MaxMetaRows}}

MergeMetaPaths ==
    {FilePath(TRUE, SuffixCsv, t) : t \in MetaTables}
        \cup {FilePath(TRUE, SuffixPq, SampleMetaAliased)}

MissingInput == [exists |-> FALSE, table |-> NoTable]

ExistingInputs(T) == {[exists |-> TRUE, table |-> t] : t \in T}

\* every primary table of the vocabulary, without enrichment and with the
\* sample enrichment table; the paths that fail and the default path, with
\* the smallest tables
Init ==
    /\ KeyIdle
    /\ RunStart
    /\ \/ /\ csv_path \in ExistingInputs(
                 TablesOf(PrimaryVocabulary, SchemaHeaders, MaxRows))
          /\ meta_path \in SchemaMetaPaths
       \/ /\ csv_path \in ExistingInputs(
                 TablesOf(PrimaryVocabulary, {<<ColName>>}, MaxRows))
          /\ meta_path \in FailingMetaPaths \cup DefaultMetaPaths
       \/ /\ csv_path = MissingInput
          /\ meta_path \in SchemaMetaPaths \cup FailingMetaPaths
                               \cup DefaultMetaPaths

\* the primary tables the merge step reads, with every enrichment table
InitMerge ==
    /\ KeyIdle
    /\ RunStart
    /\ \/ /\ csv_path \in ExistingInputs(
                 TablesOf(MergeVocabulary, MergeHeaders, MaxRows))
          /\ meta_path \in MergeMetaPaths
       \/ /\ csv_path = MissingInput
          /\ meta_path \in SchemaMetaPaths

\* the accuracy tables, without enrichment
InitMetric ==
    /\ KeyIdle
    /\ RunStart
    /\ meta_path = NoPath
    /\ \/ csv_path \in ExistingInputs(MetricTables)
       \/ csv_path = MissingInput

\* the headers and cells of the tables the report is grouped from
TaskVocabulary ==
    << <<<<"T","a","s","k">>,
         {<<>>, <<"1","."," ","C","l","s">>, <<"C","l","s">>, <<"D","e","t">>,
          <<"1","2",".","D","e","t"," ">>}, "task">>,
       <<<<"N","a","m","e">>,
         {<<"F","o","o">>, <<"B","a","r">>}, "name">> >>

MaxTaskRows == 3

TaskHeaders == {<<ColTask>>, <<ColTask, ColName>>}

\* the tables with a Task column, without enrichment
InitTask ==
    /\ KeyIdle
    /\ RunStart
    /\ meta_path = NoPath
    /\ \/ csv_path \in ExistingInputs(
                 TablesOf(TaskVocabulary, TaskHeaders, MaxTaskRows))
       \/ csv_path = MissingInput

\* csv_path does not exist
InputMissing ==
    /\ pc = "start"
    /\ ~csv_path.exists
    /\ err' = "FileNotFoundError"
    /\ pc' = "failed"
    /\ UNCHANGED <<csv_path, meta_path, df_raw, base, enrich, df_processed,
                   body_html, out_file, written, printed>>
    /\ UNCHANGED keyVars

\* print(f"meta = {meta_path}"); df_raw = pd.read_csv(csv_path)
ReadInput ==
    /\ pc = "start"
    /\ csv_path.exists
    /\ printed' = Append(printed, "meta")
    /\ df_raw' = read_csv(csv_path.table)
    /\ pc' = "read"
    /\ UNCHANGED <<csv_path, meta_path, base, enrich, df_processed, body_html,
                   out_file, written, err>>
    /\ UNCHANGED keyVars

\* df_processed = normalize_and_process(df_raw, meta_path=meta_path)
NormalizeAndProcess ==
    /\ pc = "read"
    /\ base' = BeforeMerge(df_raw)
    /\ enrich' = IF base'.err = "" /\ meta_path.given
                 THEN load_meta(meta_path) ELSE Ok(EmptyFrame)
    /\ \E res \in {FinishProcess(base', meta_path, enrich')} :
           /\ df_processed' = res.df
           /\ err' = res.err
           /\ pc' = IF res.err = "" THEN "processed" ELSE "failed"
    /\ UNCHANGED <<csv_path, meta_path, df_raw, body_html, out_file, written,
                   printed>>
    /\ UNCHANGED keyVars

\* body_html = dataframe_grouped_html(df_processed); html = build_full_html(...)
RenderHtml ==
    /\ pc = "processed"
    /\ body_html' = dataframe_grouped_html(df_processed)
    /\ pc' = "rendered"
    /\ UNCHANGED <<csv_path, meta_path, df_raw, base, enrich, df_processed,
                   out_file, written, printed, err>>
    /\ UNCHANGED keyVars

\* html_path.write_text(html, encoding="utf-8")
WriteOutput ==
    /\ pc = "rendered"
    /\ out_file' = body_html
    /\ written' = TRUE
    /\ pc' = "written"
    /\ UNCHANGED <<csv_path, meta_path, df_raw, base, enrich, df_processed,
                   body_html, printed, err>>
    /\ UNCHANGED keyVars

\* the write fails: the exception ends the run
WriteFails ==
    /\ pc = "rendered"
    /\ err' = "OSError"
    /\ pc' = "failed"
    /\ UNCHANGED <<csv_path, meta_path, df_raw, base, enrich, df_processed,
                   body_html, out_file, written, printed>>
    /\ UNCHANGED keyVars

\* print(f"[OK] Generated: {html_path}")
PrintConfirmation ==
    /\ pc = "written"
    /\ printed' = Append(printed, "ok")
    /\ pc' = "done"
    /\ UNCHANGED <<csv_path, meta_path, df_raw, base, enrich, df_processed,
                   body_html, out_file, written, err>>
    /\ UNCHANGED keyVars

Next ==
    \/ InputMissing
    \/ ReadInput
    \/ NormalizeAndProcess
    \/ RenderHtml
    \/ WriteOutput
    \/ WriteFails
    \/ PrintConfirmation

(***************************************************************************)
(* Specifications.                                                         *)
(***************************************************************************)
SpecKey == KeyInit /\ [][KeyNext]_vars

Spec == Init /\ [][Next]_vars

SpecMerge == InitMerge /\ [][Next]_vars

SpecMetric == InitMetric /\ [][Next]_vars

SpecTask == InitTask /\ [][Next]_vars

(***************************************************************************)
(* Properties.                                                             *)
(***************************************************************************)
\* normalize_and_process has just returned a record set
Returned == err = "" /\ pc = "processed"

Merged == Returned /\ meta_path.given

MergeCols == {ColInputResolution, ColOperations, ColParameters}

\* the value a row holds when the merge step starts, and in the output
BaseCell(r, c) == Column(base.df, c)[r]

OutCell(r, c) == Column(df_processed, c)[r]

NonEmpty(v) == ~IsNaN(v) /\ v # Str(<<>>)

\* equal, or the same number held as int64 and as float64
SameValue(a, b) ==
    \/ a = b
    \/ IsNumber(a) /\ IsNumber(b) /\ Hundredths(a) = Hundredths(b)

\* the enrichment records whose Matching Key is that of primary row r
RecordsFor(r) == MatchesOf(enrich.df, BaseCell(r, ColMatchKey))

RecordCell(rec, c) == rec[ColPos(enrich.df, c)]

\* the enrichment table as read, under the standard column names, with the
\* Matching Key of each row
MetaAsRead ==
    AddMatchKey(MetaRename(StripHeaders(read_csv(meta_path.table)),
                           MetaRenameMap), ColName)

\* the Matching Key of each row of a frame
KeysOf(M) == [q \in DOMAIN M.rows |-> M.rows[q][ColPos(M, ColMatchKey)]]

\* the last row of M that has the key of row q
LastWithKey(M, keys, q) ==
    M.rows[Max({p \in DOMAIN M.rows : keys[p] = keys[q]})]

\* C1: the record set normalize_and_process returns has exactly the sixteen
\* canonical fields, each once and in the canonical order, and every record
\* holds one value per field, with and without enrichment.
CanonicalFields ==
    Returned =>
        /\ df_processed.cols =
               <<ColTask, ColName, ColDataset, ColInputResolution,
                 ColOperations, ColParameters, ColLicense, ColMetric,
                 ColRawAccuracy, ColNPUAccuracy, ColFPS, ColFPSWatt,
                 ColSource, ColCompiled, ColOnnx, ColJson>>
        /\ \A r \in DOMAIN df_processed.rows : Len(df_processed.rows[r]) = 16

CanonicalFieldsWitness ==
    /\ Returned
    /\ meta_path.given
    /\ df_raw.rows # <<>>
    /\ \E j \in DOMAIN df_raw.cols : ~InDict(lower_alias_map(COLUMN_ALIAS_MAP),
                                             StrLower(df_raw.cols[j]))
                                     /\ df_raw.cols[j] \notin Range(FINAL_COLUMNS)
    /\ ~HasCol(df_raw, ColTask)

\* C2: a value of Input Resolution, Operations or Parameters that is not
\* empty when the merge step starts is the value of the output, whatever the
\* matching enrichment record holds.
NeverOverwrites ==
    Merged =>
        \A r \in DOMAIN df_processed.rows, c \in MergeCols :
            NonEmpty(BaseCell(r, c)) => OutCell(r, c) = BaseCell(r, c)

NeverOverwritesWitness ==
    /\ Merged
    /\ \E r \in DOMAIN df_processed.rows, c \in MergeCols :
           /\ NonEmpty(BaseCell(r, c))
           /\ RecordsFor(r) # <<>>
           /\ NonEmpty(RecordCell(RecordsFor(r)[1], c))
           /\ ~SameValue(RecordCell(RecordsFor(r)[1], c), BaseCell(r, c))

\* C3: for a primary row with a matching enrichment record, a field among
\* Input Resolution, Operations and Parameters whose column is missing from
\* the primary table or whose cell is empty holds the record's value in the
\* output.
FillsGaps ==
    Merged =>
        \A r \in DOMAIN df_processed.rows, c \in MergeCols :
            (/\ RecordsFor(r) # <<>>
             /\ \/ ~HasCol(df_raw, c)
                \/ IsNaN(Column(df_raw, c)[r]))
                => SameValue(OutCell(r, c), RecordCell(RecordsFor(r)[1], c))

\* C4: the output has the rows of the primary table, each once and in the
\* original order, whether or not an enrichment record matches, also when
\* the enrichment table repeats a name.
RowPreserving ==
    Merged =>
        /\ Len(df_processed.rows) = Len(df_raw.rows)
        /\ \A r \in DOMAIN df_processed.rows :
               \A c \in Range(FINAL_COLUMNS) \ MergeCols :
                   OutCell(r, c) = BaseCell(r, c)

RowPreservingWitness ==
    /\ Merged
    /\ Len(enrich.df.rows) < Len(meta_path.table.rows)
    /\ \E r \in DOMAIN df_processed.rows : RecordsFor(r) # <<>>
    /\ \E r \in DOMAIN df_processed.rows : RecordsFor(r) = <<>>
    /\ \E r, q \in DOMAIN df_processed.rows :
           r # q /\ OutCell(r, ColName) # OutCell(q, ColName)

\* load_meta kept, for every row q of the table M, one record, and it holds
\* the values of the last row with the key of q
OneRecordTheLast(M, keys) ==
    /\ \A q \in DOMAIN M.rows :
           LET recs == MatchesOf(enrich.df, keys[q])
               last == LastWithKey(M, keys, q)
           IN  /\ Len(recs) = 1
               /\ SameValue(RecordCell(recs[1], ColInputResolution),
                            last[ColPos(M, ColInputResolution)])
               /\ SameValue(RecordCell(recs[1], ColOperations),
                            ToNumeric(last[ColPos(M, ColOperations)]))
               /\ SameValue(RecordCell(recs[1], ColParameters),
                            ToNumeric(last[ColPos(M, ColParameters)]))
    /\ Len(enrich.df.rows) = Cardinality({keys[q] : q \in DOMAIN M.rows})

\* a row of the output whose Input Resolution came from the enrichment table
\* has the value of the last row with its key
OutputFromLast(M, keys) ==
    \A r \in DOMAIN df_processed.rows, q \in DOMAIN M.rows :
        (keys[q] = BaseCell(r, ColMatchKey) /\ ~HasCol(df_raw, ColInputResolution))
            => SameValue(OutCell(r, ColInputResolution),
                         LastWithKey(M, keys, q)[ColPos(M, ColInputResolution)])

\* an earlier and a later row of M share the key of an output row and differ
EarlierRowDiffers(M, keys) ==
    \E r \in DOMAIN df_processed.rows, p, q \in DOMAIN M.rows :
        /\ p < q
        /\ keys[p] = keys[q]
        /\ keys[q] = BaseCell(r, ColMatchKey)
        /\ ~SameValue(M.rows[p][ColPos(M, ColInputResolution)],
                      M.rows[q][ColPos(M, ColInputResolution)])

\* C5: load_meta returns one record for each Matching Key of the enrichment
\* table, holding the values of the last row with that key, and a field the
\* primary table lacks gets the values of that last row.
LastRecordWins ==
    Merged =>
        /\ OneRecordTheLast(MetaAsRead, KeysOf(MetaAsRead))
        /\ OutputFromLast(MetaAsRead, KeysOf(MetaAsRead))

LastRecordWinsWitness ==
    /\ Merged
    /\ ~HasCol(df_raw, ColInputResolution)
    /\ EarlierRowDiffers(MetaAsRead, KeysOf(MetaAsRead))

\* C6: _normalize_key applied to its own result returns it unchanged, and a
\* text and its variant by letter case, by leading or trailing whitespace or
\* by the length of an internal whitespace run have the same key.
KeyIdempotentCanonical ==
    /\ kpc = "done" => kTwice = kOut
    /\ kpc \in {"called", "done"} => kVarOut = kOut

KeyWitness ==
    /\ kpc = "done"
    /\ IsStr(kIn)
    /\ kVar # kIn
    /\ kOut # <<>>
    /\ kOut # kIn.s
    /\ \E i \in DOMAIN kIn.s : IsSpace(kIn.s[i])

\* the accuracy texts _metric_accuracy_parsor reads in row r, and the texts
\* of the output
RawText(r) == RowGetStr(df_raw, r, ColRawAccuracy)

NpuText(r) == RowGetStr(df_raw, r, ColNPUAccuracy)

OutText(r, c) == OutCell(r, c).s

APSubLabels == {TxtAPEasy, TxtAPMedium, TxtAPHard}

\* the PSNR/SSIM rule and the AP rule of the classification order
PsnrRule(s) ==
    StartsWith(s, TxtAvgPSNR) \/ StartsWith(s, TxtPSNR) \/ Contains(s, TxtSSIM)

ApRule(s) == StartsWith(s, TxtValAP) \/ StartsWith(s, TxtAP)

\* the AP rule is the first rule that matches s
ApRuleFirst(s) ==
    /\ ~StartsWith(s, TxtTop1)
    /\ ~StartsWith(s, TxtMAP)
    /\ ~StartsWith(s, TxtMIoU)
    /\ ~PsnrRule(s)
    /\ ApRule(s)

\* the Metric the first matching rule allows for the trimmed text s
FirstRuleDecides(s, metric) ==
    IF StartsWith(s, TxtTop1) THEN metric = TxtTop1
    ELSE IF StartsWith(s, TxtMAP) THEN metric \in {TxtMAP, TxtMAP50}
    ELSE IF StartsWith(s, TxtMIoU) THEN metric = TxtMIoU
    ELSE IF PsnrRule(s) THEN metric = TxtPSNRSSIM
    ELSE IF ApRule(s) THEN metric \in {TxtAPTriple} \cup APSubLabels
    ELSE metric = <<>>

\* C7: the Metric of a row is decided from the trimmed raw accuracy text by
\* the first rule that matches, in the order Top1, mAP, mIoU, PSNR/SSIM, AP,
\* else empty; an AP sub-label is written only when that rule is the AP rule.
MetricByFirstRule ==
    Returned =>
        \A r \in DOMAIN df_processed.rows :
            FirstRuleDecides(Strip(RawText(r)), OutText(r, ColMetric))

\* the labels among Easy, Medium, Hard the text names
NamedLabels(s) ==
    {l \in {TxtEasy, TxtMedium, TxtHard} : \E i \in DOMAIN s : OccursAtCI(s, l, i)}

\* the numbers the text gives for the label l, in plain or function form
LabelledValues(s, l) ==
    {NumText(s, ApPairAt(s, l, i)) : i \in {j \in DOMAIN s : ApPairAt(s, l, j) # 0}}
        \cup {NumText(s, ApFuncAt(s, l, i)) :
                  i \in {j \in DOMAIN s : ApFuncAt(s, l, j) # 0}}

SlotValues(s, l) ==
    IF LabelledValues(s, l) = {} THEN {<<>>} ELSE LabelledValues(s, l)

\* out is "<easy-or-empty> / <medium-or-empty> / <hard-or-empty>" for s
ThreeSlots(s, out) ==
    \E e \in SlotValues(s, TxtEasy), md \in SlotValues(s, TxtMedium),
       h \in SlotValues(s, TxtHard) :
        out = e \o TxtSlash \o md \o TxtSlash \o h

SubLabelForOne(s, metric, out) ==
    /\ metric \in APSubLabels => Cardinality(NamedLabels(s)) = 1
    /\ Cardinality(NamedLabels(s)) >= 2 =>
           metric = TxtAPTriple /\ ThreeSlots(s, out)

\* C8: for a raw text of the AP family the Metric is a sub-label only if the
\* text names exactly one of Easy, Medium, Hard; a text naming two or three
\* of them gets the Metric AP(Easy/Med/Hard) and the composite Raw Accuracy.
SubLabelOnlyForOne ==
    Returned =>
        \A r \in DOMAIN df_processed.rows :
            ApRuleFirst(Strip(RawText(r))) =>
                SubLabelForOne(Strip(RawText(r)), OutText(r, ColMetric),
                               OutText(r, ColRawAccuracy))

HasLabelled(s) ==
    \E l \in {TxtEasy, TxtMedium, TxtHard} : LabelledValues(s, l) # {}

\* a labelled value gives the three slots; the single value is left to texts
\* with neither a labelled value nor three numbers
LabelledGivesSlots(s, out) ==
    /\ HasLabelled(s) => ThreeSlots(s, out)
    /\ (~HasLabelled(s) /\ Len(NumFindAll(s)) >= 3) =>
           out = JoinFirst(NumFindAll(s), 3)

\* the same, for a text that holds the word AP, alone or after Val; every
\* other text gets the single value
NamedApGivesSlots(s, out) ==
    /\ (ApPreambleFound(s) /\ HasLabelled(s)) => ThreeSlots(s, out)
    /\ (ApPreambleFound(s) /\ ~HasLabelled(s) /\ Len(NumFindAll(s)) >= 3) =>
           out = JoinFirst(NumFindAll(s), 3)
    /\ (~ApPreambleFound(s) \/ (~HasLabelled(s) /\ Len(NumFindAll(s)) < 3)) =>
           out = PrimaryAccuracyOf(s)

\* C9 as stated: in the composite AP family the raw and the device text
\* alike give the three slots in Easy, Medium, Hard order whenever they hold
\* a labelled value, and the single value only without labelled values and
\* without three numbers.
TripleWheneverLabelled ==
    Returned =>
        \A r \in DOMAIN df_processed.rows :
            OutText(r, ColMetric) = TxtAPTriple =>
                /\ LabelledGivesSlots(Strip(RawText(r)), OutText(r, ColRawAccuracy))
                /\ LabelledGivesSlots(Strip(NpuText(r)), OutText(r, ColNPUAccuracy))

\* C9, amended: the three slots (or the first three numbers) are written for
\* a text that holds the word AP; a text without it gets the single value
\* even when it holds labelled values or three numbers.
TripleWhenApNamed ==
    Returned =>
        \A r \in DOMAIN df_processed.rows :
            OutText(r, ColMetric) = TxtAPTriple =>
                /\ NamedApGivesSlots(Strip(RawText(r)), OutText(r, ColRawAccuracy))
                /\ NamedApGivesSlots(Strip(NpuText(r)), OutText(r, ColNPUAccuracy))

\* the device text names AP and gives Hard before Easy and no Medium
HardBeforeEasy(s) ==
    /\ ApPreambleFound(s)
    /\ LabelledValues(s, TxtMedium) = {}
    /\ \E i, j \in DOMAIN s :
           i < j /\ ApPairAt(s, TxtHard, i) # 0 /\ ApPairAt(s, TxtEasy, j) # 0

TripleWhenApNamedWitness ==
    /\ Returned
    /\ \E r \in DOMAIN df_processed.rows :
           /\ OutText(r, ColMetric) = TxtAPTriple
           /\ HardBeforeEasy(Strip(NpuText(r)))
           /\ OutText(r, ColNPUAccuracy) # <<>>

\* C10: the NPU Accuracy of a row is decided by its device text and its
\* metric family, and its Raw Accuracy by its raw text: two rows of a table
\* with the same family and device text have the same NPU Accuracy.
FieldsIndependent ==
    (Returned /\ HasCol(df_raw, ColRawAccuracy) /\ HasCol(df_raw, ColNPUAccuracy)) =>
        \A r, q \in DOMAIN df_processed.rows :
            OutText(r, ColMetric) = OutText(q, ColMetric) =>
                /\ NpuText(r) = NpuText(q) =>
                       OutText(r, ColNPUAccuracy) = OutText(q, ColNPUAccuracy)
                /\ RawText(r) = RawText(q) =>
                       OutText(r, ColRawAccuracy) = OutText(q, ColRawAccuracy)

\* the name each source column has after the headers are stripped and renamed
RenamedCols == RenameColumns(StripHeaders(df_raw)).cols

\* the source columns that become the column c
SourcesOf(renamed, c) == {j \in DOMAIN renamed : renamed[j] = c}

\* v is the leftmost non-empty value row r holds in the source columns idx
LeftmostNonEmpty(r, idx, v) ==
    \E j \in idx :
        /\ NonEmpty(df_raw.rows[r][j])
        /\ \A i \in idx : i < j => ~NonEmpty(df_raw.rows[r][i])
        /\ v = df_raw.rows[r][j]

HasNonEmpty(r, idx) == \E j \in idx : NonEmpty(df_raw.rows[r][j])

\* the output has one column c, holding the leftmost non-empty duplicate
CollapsedLeftmost(renamed, c) ==
    Cardinality(SourcesOf(renamed, c)) > 1 =>
        /\ Cardinality(ColIndexes(df_processed, c)) = 1
        /\ Len(df_processed.rows) = Len(df_raw.rows)
        /\ \A r \in DOMAIN df_raw.rows :
               HasNonEmpty(r, SourcesOf(renamed, c)) =>
                   LeftmostNonEmpty(r, SourcesOf(renamed, c), OutCell(r, c))

\* C11: when two source columns both become License, or both become Name,
\* the output has a single such column and each row holds the leftmost
\* non-empty value of the duplicates; a later duplicate never replaces an
\* earlier non-empty value.
DuplicatesBackFilled ==
    Returned =>
        /\ CollapsedLeftmost(RenamedCols, ColLicense)
        /\ CollapsedLeftmost(RenamedCols, ColName)

\* two License columns: one row holds (empty, x), another (x, y)
DuplicatesBackFilledWitness ==
    /\ Returned
    /\ \E idx \in {SourcesOf(RenamedCols, ColLicense)} :
           /\ Cardinality(idx) = 2
           /\ \E r, q \in DOMAIN df_raw.rows :
                  /\ IsNaN(df_raw.rows[r][Min(idx)])
                  /\ NonEmpty(df_raw.rows[r][Max(idx)])
                  /\ OutCell(r, ColLicense) = df_raw.rows[r][Max(idx)]
                  /\ NonEmpty(df_raw.rows[q][Min(idx)])
                  /\ NonEmpty(df_raw.rows[q][Max(idx)])
                  /\ OutCell(q, ColLicense) = df_raw.rows[q][Min(idx)]

\* the source columns called Name, filename and Model ID (in any letter case)
NameSources == {j \in DOMAIN df_raw.cols : Strip(df_raw.cols[j]) = ColName}

FilenameSources == {j \in DOMAIN df_raw.cols : Strip(df_raw.cols[j]) = ColFilename}

ModelIdSources ==
    {j \in DOMAIN df_raw.cols :
        StrLower(Strip(df_raw.cols[j])) = StrLower(ColModelID)}

\* there is no Name column, or it is empty in every row
NameAbsentOrEmpty ==
    \A j \in NameSources : \A r \in DOMAIN df_raw.rows : IsNaN(df_raw.rows[r][j])

\* the Name the fallback order gives row r
FallbackName(r) ==
    IF FilenameSources # {} THEN df_raw.rows[r][Min(FilenameSources)]
    ELSE IF ModelIdSources # {} THEN df_raw.rows[r][Min(ModelIdSources)]
    ELSE Str(TxtNA)

\* C12: without a Name column, or with Name empty in every row, the Name of
\* every row comes from the filename column if there is one, else from the
\* Model ID column if there is one, else it is "N/A"; with both a filename
\* and a Model ID column, it comes from filename.
NameFallbackOrder ==
    (Returned /\ NameAbsentOrEmpty) =>
        \A r \in DOMAIN df_processed.rows : OutCell(r, ColName) = FallbackName(r)

\* a text that, trimmed, begins with "http://" or "https://"
IsHttpUrl(v) ==
    /\ IsStr(v)
    /\ \/ StartsWith(Strip(v.s), <<"h","t","t","p",":","/","/">>)
       \/ StartsWith(Strip(v.s), <<"h","t","t","p","s",":","/","/">>)

\* the link cell of every row whose source value is no http(s) URL is empty
EmptyUnlessHttp(renamed, c) ==
    \A j \in SourcesOf(renamed, c) :
        \A r \in DOMAIN df_raw.rows :
            ~IsHttpUrl(df_raw.rows[r][j]) => OutCell(r, c) = Str(<<>>)

\* C13: create_html_link gives an anchor only for a text that, trimmed,
\* begins with "http://" or "https://"; every other value (empty, blank, no
\* text, another scheme such as "ftp://x") gives "", so the link cell of the
\* output is empty.
AnchorOnlyForHttp ==
    Returned =>
        \A k \in DOMAIN LINK_COLUMNS : EmptyUnlessHttp(RenamedCols, LINK_COLUMNS[k])

\* dataframe_grouped_html has just returned the sections
Rendered == err = "" /\ pc = "rendered"

\* the Task of each output record
OutTasks == [r \in DOMAIN df_processed.rows |-> OutCell(r, ColTask).s]

\* every Task text of the source is cleaned: no ordinal prefix, no outer blanks
TasksCleaned(tasks) ==
    \A j \in DOMAIN df_raw.cols : \A r \in DOMAIN df_raw.rows :
        (df_raw.cols[j] = ColTask /\ IsStr(df_raw.rows[r][j])) =>
            tasks[r] = Strip(StripOrdinal(df_raw.rows[r][j].s))

FirstIndex(vals, x) == Min({r \in DOMAIN vals : vals[r] = x})

\* the sections are the distinct Tasks, each once, in first-appearance order
SectionsInFirstSeenOrder(sections, tasks) ==
    /\ {sections[k].task : k \in DOMAIN sections} = Range(tasks)
    /\ \A i, j \in DOMAIN sections :
           i < j => FirstIndex(tasks, sections[i].task)
                        < FirstIndex(tasks, sections[j].task)

\* a section holds the records of its Task, all of them, in source order
SectionHoldsItsRows(section, tasks) ==
    /\ section.rows # <<>>
    /\ section.rows =
           SelectSeq(df_processed.rows,
                     LAMBDA row : row[ColPos(df_processed, ColTask)].s = section.task)

\* C14: the sections of the report are the distinct cleaned Task values in
\* the order of first appearance; rows whose Task differs only by the
\* ordinal prefix share a section; every row is in exactly one section, in
\* source order, and no section is empty.
GroupedByFirstSeenTask ==
    Rendered =>
        /\ TasksCleaned(OutTasks)
        /\ SectionsInFirstSeenOrder(body_html, OutTasks)
        /\ \A k \in DOMAIN body_html : SectionHoldsItsRows(body_html[k], OutTasks)

\* three rows: the second and third differ by the ordinal prefix only and
\* share the second section
GroupedByFirstSeenTaskWitness ==
    /\ Rendered
    /\ Len(df_raw.rows) = 3
    /\ Len(body_html) = 2
    /\ Len(body_html[1].rows) = 1
    /\ Len(body_html[2].rows) = 2
    /\ df_raw.rows[2][ColPos(df_raw, ColTask)] # df_raw.rows[3][ColPos(df_raw, ColTask)]
    /\ IsStr(df_raw.rows[2][ColPos(df_raw, ColTask)])
    /\ IsStr(df_raw.rows[3][ColPos(df_raw, ColTask)])

\* main was run without --meta and meta.csv does not exist
DefaultMetaMissing ==
    csv_path.exists /\ meta_path.given /\ ~meta_path.explicit /\ ~meta_path.exists

\* C15: a run without an explicit enrichment path whose default enrichment
\* file does not exist goes on as a run without enrichment: it does not fail
\* on the missing file, and the record set is that of the primary table alone.
MissingDefaultTolerated ==
    DefaultMetaMissing =>
        /\ err # "FileNotFoundError"
        /\ Returned => df_processed = SelectColumns(base.df, FINAL_COLUMNS)

\* the confirmation has been printed
Confirmed == \E i \in DOMAIN printed : printed[i] = "ok"

\* normalize_and_process has been called
Attempted == pc \notin {"start", "read"}

\* the output file exists only after reading, normalization, enrichment and
\* rendering, and holds what was rendered
WrittenAfterStages ==
    written =>
        /\ pc \in {"written", "done"}
        /\ err = ""
        /\ df_raw = read_csv(csv_path.table)
        /\ base.err = ""
        /\ meta_path.given => enrich.err = ""
        /\ body_html = dataframe_grouped_html(df_processed)
        /\ out_file = body_html

ConfirmedAfterWrite == Confirmed => (written /\ pc = "done")

\* the run has ended with the error e, without output and confirmation
FailsWith(e) == pc = "failed" /\ err = e /\ ~written /\ ~Confirmed

\* the enrichment table lacks a required column after aliasing
MetaLacksColumn ==
    \E i \in DOMAIN MetaRequired :
        ~HasCol(MetaRename(StripHeaders(read_csv(meta_path.table)),
                           MetaRenameMap), MetaRequired[i])

MetaFormatKnown ==
    StrLower(meta_path.suffix) \in {SuffixCsv, SuffixParquet, SuffixPq}

ErrorEndsRun ==
    /\ (~csv_path.exists /\ pc # "start") => FailsWith("FileNotFoundError")
    /\ (csv_path.exists /\ meta_path.given /\ Attempted /\ base.err = "") =>
           /\ ~meta_path.exists => FailsWith("FileNotFoundError")
           /\ (meta_path.exists /\ ~MetaFormatKnown) =>
                  FailsWith("ValueError: unsupported format")
           /\ (meta_path.exists /\ MetaFormatKnown /\ MetaLacksColumn) =>
                  FailsWith("ValueError: missing columns")

\* the file is written in one step, from the rendered state, and is never
\* written again; a failed run takes no further step
WriteOnce ==
    /\ pc # "failed"
    /\ written => (written' /\ out_file' = out_file)
    /\ (~written /\ written') => (pc = "rendered" /\ ~Confirmed)

\* C16: the output file is written at most once and only after reading,
\* normalization and enrichment have completed, and the confirmation is
\* printed only after the write; a missing primary input, and an enrichment
\* path that is given but missing, of an unsupported format or without a
\* required column, end the run with that error, without output file and
\* without confirmation.
OutputOnlyAfterSuccess ==
    /\ [](WrittenAfterStages /\ ConfirmedAfterWrite /\ ErrorEndsRun)
    /\ [][WriteOnce]_vars

\* the enrichment table lacks a column: the run of a non-empty primary
\* table has ended with the schema error
OutputOnlyAfterSuccessWitness ==
    /\ FailsWith("ValueError: missing columns")
    /\ csv_path.exists
    /\ df_raw.rows # <<>>
    /\ meta_path.exists
    /\ MetaLacksColumn

\* no two source columns get the same canonical name
DistinctRenamed(renamed) ==
    \A i, j \in DOMAIN renamed : i # j => renamed[i] # renamed[j]

\* empty, as a field of a record: the empty string, or no value
Degraded(v) == IsNaN(v) \/ v = Str(<<>>)

\* the value row r holds for the canonical column c in the source, or NaN
\* when the source has no such column
SourceCell(renamed, r, c) ==
    IF SourcesOf(renamed, c) = {} THEN NaN
    ELSE df_raw.rows[r][Min(SourcesOf(renamed, c))]

\* a text without a digit
DigitFree(v) == IsStr(v) /\ \A i \in DOMAIN v.s : ~IsDigit(v.s[i])

\* each field of row r whose source value is missing or malformed is empty
FieldsDegrade(renamed, r) ==
    /\ \A c \in {ColOperations, ColParameters, ColFPS, ColFPSWatt} :
           ~IsNumber(ToNumeric(SourceCell(renamed, r, c))) =>
               OutCell(r, c) = Str(<<>>)
    /\ \A c \in {ColRawAccuracy, ColNPUAccuracy} :
           (IsNaN(SourceCell(renamed, r, c)) \/ DigitFree(SourceCell(renamed, r, c))) =>
               OutCell(r, c) = Str(<<>>)
    /\ \A k \in DOMAIN LINK_COLUMNS :
           ~IsHttpUrl(SourceCell(renamed, r, LINK_COLUMNS[k])) =>
               OutCell(r, LINK_COLUMNS[k]) = Str(<<>>)
    /\ \A c \in {ColDataset, ColInputResolution} :
           IsNaN(SourceCell(renamed, r, c)) => Degraded(OutCell(r, c))
    /\ (SourcesOf(renamed, ColTask) # {} /\ IsNaN(SourceCell(renamed, r, ColTask))) =>
           Degraded(OutCell(r, ColTask))

\* normalize_and_process has returned or raised, for a primary table alone
ProcessedAlone == csv_path.exists /\ Attempted /\ ~meta_path.given

\* C17: whatever the cells of an existing primary table hold and whichever
\* canonical columns it lacks, normalize_and_process completes without error
\* and gives one output row per input row, and every field whose source
\* value is missing or malformed is empty.
MalformedNeverFatal ==
    (ProcessedAlone /\ DistinctRenamed(RenamedCols)) =>
        /\ base.err = ""
        /\ Returned =>
               /\ Len(df_processed.rows) = Len(df_raw.rows)
               /\ \A r \in DOMAIN df_raw.rows : FieldsDegrade(RenamedCols, r)

\* the canonical fields that are empty without a source column; the Metric
\* is derived from the Raw Accuracy column
EmptyByDefault ==
    {ColDataset, ColInputResolution, ColOperations, ColParameters, ColLicense,
     ColMetric, ColRawAccuracy, ColNPUAccuracy, ColFPS, ColFPSWatt, ColSource,
     ColCompiled, ColOnnx, ColJson}

NoSourceFor(renamed, c) ==
    SourcesOf(renamed, IF c = ColMetric THEN ColRawAccuracy ELSE c) = {}

\* C18: without enrichment, every canonical field other than Task and Name
\* that has no source column in the primary table is present in every output
\* record and holds the empty string.
EmptyWithoutSource ==
    (Returned /\ ~meta_path.given) =>
        \A c \in EmptyByDefault :
            NoSourceFor(RenamedCols, c) =>
                /\ HasCol(df_processed, c)
                /\ \A r \in DOMAIN df_processed.rows : OutCell(r, c) = Str(<<>>)

\* a non-empty text that is no number
Garbage(v) == IsStr(v) /\ v.s # <<>> /\ ~IsNumber(ToNumeric(v))

ScaleCols == {ColOperations, ColParameters}

\* row r holds garbage in column c and has a matching enrichment record
\* that holds a number there
GarbageWithRecord(renamed, r, c) ==
    /\ Garbage(SourceCell(renamed, r, c))
    /\ RecordsFor(r) # <<>>
    /\ IsNumber(RecordCell(RecordsFor(r)[1], c))

\* C19 as stated: a non-numeric text in Operations or Parameters counts as
\* present at the merge step, and the value of the matching enrichment
\* record is not filled in.
GarbageSuppressesFill ==
    Merged =>
        \A r \in DOMAIN df_raw.rows : \A c \in ScaleCols :
            GarbageWithRecord(RenamedCols, r, c) =>
                /\ NonEmpty(BaseCell(r, c))
                /\ OutCell(r, c) = BaseCell(r, c)

\* C19, amended: the number formatting of step 7 has turned the text into
\* the empty string before the merge step, which treats the field as empty
\* and fills in the value of the matching enrichment record.
GarbageIsFilled ==
    Merged =>
        \A r \in DOMAIN df_raw.rows : \A c \in ScaleCols :
            (Garbage(SourceCell(RenamedCols, r, c)) /\ RecordsFor(r) # <<>>) =>
                /\ BaseCell(r, c) = Str(<<>>)
                /\ Len(RecordsFor(r)) = 1
                /\ SameValue(OutCell(r, c), RecordCell(RecordsFor(r)[1], c))

GarbageIsFilledWitness ==
    /\ Merged
    /\ \E r \in DOMAIN df_raw.rows :
           /\ GarbageWithRecord(RenamedCols, r, ColOperations)
           /\ IsNumber(OutCell(r, ColOperations))

\* the duplicates of c are merged before the derived fields are computed:
\* no exception, one column c, holding the leftmost non-empty duplicate
CollapsedBeforeDerived(renamed, c) ==
    Cardinality(SourcesOf(renamed, c)) > 1 =>
        /\ base.err = ""
        /\ Cardinality(ColIndexes(base.df, c)) = 1
        /\ Returned => CollapsedLeftmost(renamed, c)

\* C20: whenever the rename gives two or more source columns the same
\* canonical name, whichever name it is, exactly one column of that name
\* remains before the derived fields are computed, and each row holds in it
\* the first non-empty value of the duplicates from left to right.
EveryDuplicateCollapsed ==
    (csv_path.exists /\ Attempted) =>
        \A k \in DOMAIN FINAL_COLUMNS :
            CollapsedBeforeDerived(RenamedCols, FINAL_COLUMNS[k])

\* the Name of row q of the enrichment table M
MetaName(M, q) == M.rows[q][ColPos(M, ColName)]

\* the enrichment rows the join has matched to primary row r
SuppliersOf(M, keys, r) ==
    IF RecordsFor(r) = <<>> THEN {}
    ELSE {q \in DOMAIN M.rows : keys[q] = BaseCell(r, ColMatchKey)}

\* row r and every enrichment row matched to it are named by texts that
\* normalize to one key
MatchedByNameText(M, keys, r) ==
    \A q \in SuppliersOf(M, keys, r) :
        /\ IsStr(BaseCell(r, ColName))
        /\ IsStr(MetaName(M, q))
        /\ normalize_key(BaseCell(r, ColName)) = normalize_key(MetaName(M, q))

\* an empty Name, in the primary table or in the enrichment table, matches
\* nothing
EmptyNameUnmatched(M, keys, r) ==
    /\ IsNaN(BaseCell(r, ColName)) => RecordsFor(r) = <<>>
    /\ \A q \in SuppliersOf(M, keys, r) : ~IsNaN(MetaName(M, q))

MatchedOnlyByName(M, keys) ==
    \A r \in DOMAIN base.df.rows :
        MatchedByNameText(M, keys, r) /\ EmptyNameUnmatched(M, keys, r)

\* C21: a primary row gets enrichment values only from the enrichment record
\* whose Name is a text that normalizes to the Matching Key of the row's own
\* Name text; a primary row with an empty Name is matched to no enrichment
\* record, and an enrichment row with an empty Name supplies no primary row.
EnrichedOnlyBySameName ==
    Merged => MatchedOnlyByName(MetaAsRead, KeysOf(MetaAsRead))

====
